---- MODULE Spec2Model ----
(***************************************************************************)
(* Support-ticket router: the user record store (RedisStorage), the        *)
(* handlers that write it, and the ticket relay state machine.             *)
(*                                                                         *)
(* Every handler invocation is a task of the single event loop.  A task    *)
(* runs until its next await (store read/write, transport call); the       *)
(* steps between two awaits are one atomic action of the model.            *)
(***************************************************************************)
EXTENDS Integers, FiniteSets, Sequences, TLC

(* ---------------------------------------------------------------- bounds *)
\* Inbound events handled in one behaviour of the relay specification.
MaxEvents == 3
\* Inbound events handled in one behaviour of the store specification.
MaxStoreEvents == 6
\* Inbound events handled in one behaviour of the intake specification.
MaxIntakeEvents == 2
\* Forum topics the transport can create in one behaviour.
MaxThreads == 3
\* Forum topics deleted outside the bot in one behaviour.
MaxDeletes == 1
\* Inbound events handled in one behaviour of the recovery specification.
MaxRecoveryEvents == 2
\* send_message calls in one behaviour, and messages the chat can take.
MaxRenders == 3
MaxMsgs == 3
\* Events reaching the throttling middleware in one behaviour, and the last
\* tick of its clock.
MaxThrottleEvents == 4
MaxClock == 2
\* Capacity of one TTLCache (10_000 in throttling.py:34), scaled down.
maxsize == 2
\* Starts of the process in one behaviour, and updates handled after a start.
MaxStartups == 2
MaxPolled == 1
\* FAQ entries created, and FAQStorage calls started, in one behaviour.
MaxItems == 2
MaxFaqCalls == 3
\* Tokens of a display name, and of a message text, given to the helpers.
MaxNameLen == 2
MaxTextLen == 2
\* Runs of the backup command in one behaviour.
MaxBackups == 1

\* End users known to the bot, and the concurrent handler tasks of the loop.
Users == {1, 2}
Procs == {1, 2}
Threads == 1..MaxThreads

(* ------------------------------------------------------------- constants *)
\* redis.py:120  max_retries = 5
max_retries_off_by_one == 5 + 1
max_retries == 5

\* message_thread_id / last_user_message_at = None (models.py:8, 20)
None == 0

\* redis.hget(...) returned None: `current = {}` (redis.py:126-127)
NoRecord == <<>>

(* ------------------------------------------------------------- UserData  *)
\* The fields of UserData the handlers read or write.  id, full_name,
\* username, language_code, created_at, message_silent_id and
\* panel_message_id are carried unchanged by every handler modelled here.
UserData(thread, silent, state, banned, status, awaiting, last, replied) ==
    [message_thread_id    |-> thread,
     message_silent_mode  |-> silent,
     state                |-> state,
     is_banned            |-> banned,
     ticket_status        |-> status,
     awaiting_reply       |-> awaiting,
     last_user_message_at |-> last,
     operator_replied     |-> replied]

\* UserData defaults (models.py:15-23) for a user seen for the first time.
NewUserData == UserData(None, FALSE, "member", FALSE, "open", FALSE, None, FALSE)

\* A serialisation that loses the record.
to_dict_nothing(d) == NoRecord

\* UserData.to_dict(): asdict(self) -- EVERY field of the dataclass, set or not.
to_dict(d) == [k \in DOMAIN d |-> d[k]]

\* merged = {**current, **data.to_dict()} (redis.py:137): keys of both,
\* the value of `new` wherever `new` has the key.
Merge(current, new) ==
    [k \in (DOMAIN current) \cup (DOMAIN new) |->
        IF k \in DOMAIN new THEN new[k] ELSE current[k]]

VARIABLES
    (* the store *)
    store,       \* hash "users": user id -> stored record, or NoRecord
    index,       \* hashes "users_index_<thread>": thread -> set of user ids
    hasWatch,    \* whether the client exposes watch and multi_exec (redis.py:115)
    (* the transport *)
    alive,       \* forum topics that exist in the operator group
    nextThread,  \* id the transport gives to the next created topic
    events,      \* inbound events handled so far (also the clock of stamps)
    (* one handler task *)
    pc,          \* position of the task
    ret,         \* position the task continues at when update_user returns
    kind,        \* the handler the task runs
    user,        \* the user id the handler works on
    data,        \* the handler's UserData object (its snapshot of the record)
    base,        \* the record as the handler read it
    attempt,     \* update_user: conflicts seen so far in this call
    dirty,       \* update_user: the watched hash was written since WATCH
    cycles,      \* update_user: watch-read-merge-commit cycles started in this call
    writes,      \* update_user: hset commands executed in this call
    how,         \* update_user: how this call wrote the record
    resent,      \* the handler already recreated the topic and retries the send
    (* observations *)
    out,         \* task -> what the handler delivered through the transport so far
    deleted,     \* forum topics deleted outside the bot so far
    banCmd,      \* user -> an operator ban is in force (ban committed, no unban since)
    sawBan,      \* task -> banCmd of its user when the event arrived
    (* the presentation manager, for the private chat of one user *)
    chat,        \* message id -> what the chat shows under it
    tracked,     \* "message_id" of the FSM state data, or None
    nextMsg,     \* id the transport gives to the next sent message
    mpc,         \* position of the running send_message call
    mtext,       \* its argument text
    mreplace,    \* its argument replace_previous
    mprev,       \* its previous_message_id
    mlog,        \* the transport calls it made, with their outcomes
    renders,     \* send_message calls started so far
    (* the throttling middleware *)
    caches,      \* throttling key -> its TTLCache: <<user id, expires>>, oldest first
    clock,       \* time.monotonic(), in ticks
    arrived,     \* events that reached the middleware so far
    invoked,     \* handler invocations made by the middleware so far
    last,        \* the latest event: its user, its key, what __call__ returned
    accepted,    \* user, key -> tick of the latest event passed to the handler, or -1
    since,       \* user, key -> events of other users passed under the key since then
    (* startup and the migration steps *)
    topicName,   \* forum topic -> its name in the operator group
    boot,        \* position of main: "migrating", "polling" or "aborted"
    migrations,  \* the migration steps in declaration order
    stepNo,      \* index of the step that runs or runs next
    spc,         \* position of the running step
    ids,         \* its user_ids
    cur,         \* index in user_ids of the record it works on
    urec,        \* its user / user_data object
    needs,       \* its needs_update
    sincePause,  \* records it processed since its latest pause (or its start)
    produced,    \* step -> the hash "users" as the latest completed run of it left it
    fresh,       \* the running step started on the hash a run of it produced
    ran,         \* steps completed since the process started
    startups,    \* starts of the process so far
    polled,      \* updates handled since the process started
    (* the settings store *)
    settings,    \* hash "settings": key -> <<text>>, or Absent
    slast,       \* the latest SettingsStorage call, with what it returned
    overrides,   \* category -> the (language, text) pairs set and not reset since
    wasSet,      \* the (category, language) pairs set so far
    (* the FAQ store *)
    items,       \* hash "faq:items": item id -> stored entry, or Absent
    order,       \* list "faq:order": item ids
    nextId,      \* the id uuid4 gives to the next new entry
    fcalls,      \* FAQStorage calls started so far
    fpc,         \* caller -> position of its FAQStorage call
    fop,         \* caller -> the method it called
    farg,        \* caller -> the arguments: item id, title, text
    fitem,       \* caller -> the FAQItem object it holds
    fraw,        \* caller -> list_items: the raw_ids still to fetch
    facc,        \* caller -> list_items: faq_items so far
    fres,        \* caller -> what its latest call returned: <<>> is None
    added,       \* ids in the order their add_item calls completed
    removed,     \* ids whose delete_item was called
    (* the pure helpers *)
    ucall,       \* the latest call of a helper: its arguments and what it returned
    (* the backup script *)
    files,       \* path -> <<content of the file>>, or Absent
    bargs,       \* the arguments of the running backup command
    bpc,         \* position of the backup command
    bruns        \* backup commands started so far

managerVars == <<chat, tracked, nextMsg, mpc, mtext, mreplace, mprev, mlog, renders>>
\* What the handlers of user records leave alone.
throttleVars == <<caches, clock, arrived, invoked, last, accepted, since>>
migrationVars == <<topicName, boot, migrations, stepNo, spc, ids, cur, urec, needs,
                   sincePause, produced, fresh, ran, startups, polled>>
settingsVars == <<settings, slast, overrides, wasSet>>
faqVars == <<items, order, nextId, fcalls, fpc, fop, farg, fitem, fraw, facc, fres,
             added, removed>>
utilsVars == <<ucall>>
backupVars == <<files, bargs, bpc, bruns>>
envVars == <<hasWatch, managerVars, throttleVars, migrationVars, settingsVars, faqVars,
             utilsVars, backupVars>>
storeVars == <<store, index, envVars>>
transportVars == <<alive, nextThread, events>>
taskVars == <<pc, ret, kind, user, data, base, resent>>
updVars == <<attempt, dirty, cycles, writes, how>>
obsVars == <<out, deleted, banCmd, sawBan>>
vars == <<storeVars, transportVars, taskVars, updVars, obsVars>>
\* What a send_message call leaves alone: the user records and their handlers.
relayVars == <<store, index, hasWatch, transportVars, taskVars, updVars, obsVars>>
managerRest == <<relayVars, throttleVars, migrationVars, settingsVars, faqVars,
                 utilsVars, backupVars>>
\* What the throttling middleware leaves alone.
throttleRest == <<relayVars, managerVars, migrationVars, settingsVars, faqVars,
                  utilsVars, backupVars>>
\* What startup and the migration steps leave alone.
migrationRest == <<hasWatch, nextThread, events, taskVars, updVars, obsVars,
                   managerVars, throttleVars, settingsVars, faqVars, utilsVars, backupVars>>
\* What the settings store leaves alone.
settingsRest == <<relayVars, managerVars, throttleVars, migrationVars, faqVars,
                  utilsVars, backupVars>>
\* What the FAQ store leaves alone.
faqRest == <<relayVars, managerVars, throttleVars, migrationVars, settingsVars,
             utilsVars, backupVars>>
\* What the pure helpers leave alone: everything but the record of the call.
utilsRest == <<relayVars, managerVars, throttleVars, migrationVars, settingsVars,
               faqVars, backupVars>>
\* What the backup script leaves alone: the bot and its store.
backupRest == <<relayVars, managerVars, throttleVars, migrationVars, settingsVars,
                faqVars, utilsVars>>

\* Task p is free.  The tasks are interchangeable, so an event is given to
\* the first free one.
Idle(p) ==
    /\ pc[p] = "idle"
    /\ \A q \in Procs : q < p => pc[q] # "idle"

(* ------------------------------------------------ RedisStorage.update_user *)
\* A variant of the call that goes to the index write at once.
CallUpdateIndexOnly(p, r) ==
    /\ pc' = [pc EXCEPT ![p] = "idx"]
    /\ ret' = [ret EXCEPT ![p] = r]
    /\ attempt' = [attempt EXCEPT ![p] = 0]
    /\ cycles' = [cycles EXCEPT ![p] = 0]
    /\ writes' = [writes EXCEPT ![p] = 0]
    /\ how' = [how EXCEPT ![p] = "none"]
    /\ dirty' = dirty

\* A handler calls update_user(id_, data): the call starts at "upd" and
\* continues the handler at `r` when it returns.
CallUpdate(p, r) ==
    /\ pc' = [pc EXCEPT ![p] = "upd"]
    /\ ret' = [ret EXCEPT ![p] = r]
    /\ attempt' = [attempt EXCEPT ![p] = 0]
    /\ cycles' = [cycles EXCEPT ![p] = 0]
    /\ writes' = [writes EXCEPT ![p] = 0]
    /\ how' = [how EXCEPT ![p] = "none"]
    /\ dirty' = dirty

\* A variant of hset that keeps a field that is already set (HSETNX).
hsetnx(h, key, value) == IF h[key] = NoRecord THEN [h EXCEPT ![key] = value] ELSE h

\* HSET: the hash with the field `key` set to `value`, set or not before.
hset(h, key, value) == [h EXCEPT ![key] = value]

\* hset(self.NAME, str(id_), value) by task p.  The hash "users" is the
\* watched key, so the write marks every other task that is between its
\* WATCH and its EXEC.  The ban/unban commands' writes are observed.
WriteUser(p, value) ==
    /\ store' = hset(store, user[p], value)
    /\ dirty' = [q \in Procs |-> IF q = p THEN FALSE ELSE (dirty[q] \/ pc[q] = "exec")]
    /\ writes' = [writes EXCEPT ![p] = @ + 1]
    /\ banCmd' = [banCmd EXCEPT ![user[p]] =
                    IF kind[p] = "ban" THEN TRUE
                    ELSE IF kind[p] = "unban" THEN FALSE ELSE @]

\* redis.py:115-118: the client has no watch/multi_exec: plain hset of the
\* caller's snapshot.
UpdPlain(p) ==
    /\ pc[p] = "upd"
    /\ ~hasWatch
    /\ WriteUser(p, to_dict(data[p]))
    /\ how' = [how EXCEPT ![p] = "plain"]
    /\ pc' = [pc EXCEPT ![p] = "idx"]
    /\ UNCHANGED <<index, envVars, transportVars, ret, kind, user, data, base,
                   resent, attempt, cycles, out, deleted, sawBan>>

\* redis.py:124-134: WATCH the hash and read the current record.  (The value
\* read is used only by a transaction that commits, and a transaction commits
\* only if the hash was not written since WATCH: then it is the stored value.)
UpdWatch(p) ==
    /\ pc[p] = "upd"
    /\ hasWatch
    /\ cycles' = [cycles EXCEPT ![p] = @ + 1]
    /\ dirty' = [dirty EXCEPT ![p] = FALSE]
    /\ pc' = [pc EXCEPT ![p] = "exec"]
    /\ UNCHANGED <<storeVars, transportVars, ret, kind, user, data, base, resent,
                   attempt, writes, how, obsVars>>

\* redis.py:137-141: MULTI / HSET merged / EXEC succeeds.
UpdCommit(p) ==
    /\ pc[p] = "exec"
    /\ ~dirty[p]
    /\ LET raw == store[user[p]]
           current == IF raw = NoRecord THEN NoRecord ELSE raw
       IN  WriteUser(p, Merge(current, to_dict(data[p])))
    /\ how' = [how EXCEPT ![p] = "merged"]
    /\ pc' = [pc EXCEPT ![p] = "idx"]
    /\ UNCHANGED <<index, envVars, transportVars, ret, kind, user, data, base,
                   resent, attempt, cycles, out, deleted, sawBan>>

\* redis.py:145-153: EXEC raises WatchError; unwatch; next attempt, or leave
\* the loop after max_retries attempts.
UpdConflict(p) ==
    /\ pc[p] = "exec"
    /\ dirty[p]
    /\ attempt' = [attempt EXCEPT ![p] = @ + 1]
    /\ dirty' = [dirty EXCEPT ![p] = FALSE]
    /\ pc' = [pc EXCEPT ![p] = IF attempt[p] + 1 < max_retries THEN "upd" ELSE "fallback"]
    /\ UNCHANGED <<storeVars, transportVars, ret, kind, user, data, base, resent,
                   cycles, writes, how, obsVars>>

\* redis.py:155-156: too many conflicts: write the provided snapshot.
UpdFallback(p) ==
    /\ pc[p] = "fallback"
    /\ WriteUser(p, to_dict(data[p]))
    /\ how' = [how EXCEPT ![p] = "overwrite"]
    /\ pc' = [pc EXCEPT ![p] = "idx"]
    /\ UNCHANGED <<index, envVars, transportVars, ret, kind, user, data, base,
                   resent, attempt, cycles, out, deleted, sawBan>>

\* update_user returns to the handler without filing the user under the thread.
UpdIndexUnfiled(p) ==
    /\ pc[p] = "idx"
    /\ pc' = [pc EXCEPT ![p] = ret[p]]
    /\ UNCHANGED <<store, index, envVars, transportVars, ret, kind, user, data, base,
                   resent, updVars, obsVars>>

\* redis.py:44-54 _update_index, then update_user returns to the handler.
UpdIndex(p) ==
    /\ pc[p] = "idx"
    /\ index' = IF data[p].message_thread_id = None THEN index
                ELSE [index EXCEPT ![data[p].message_thread_id] = @ \cup {user[p]}]
    /\ pc' = [pc EXCEPT ![p] = ret[p]]
    /\ UNCHANGED <<store, envVars, transportVars, ret, kind, user, data, base,
                   resent, updVars, obsVars>>

update_user(p) ==
    \/ UpdPlain(p)
    \/ UpdWatch(p)
    \/ UpdCommit(p)
    \/ UpdConflict(p)
    \/ UpdFallback(p)
    \/ UpdIndex(p)

\* redis.py:83-97 get_user(id_): the stored record, NoRecord for None.
get_user(id_) == store[id_]

\* redis.py:66-81 _get_user_id_by_message_thread_id: the first key HKEYS
\* gives for the index hash of the thread, whichever that is when the hash
\* has several; None when it has none.
get_user_id_by_message_thread_id(message_thread_id) ==
    IF index[message_thread_id] = {} THEN {None} ELSE index[message_thread_id]

\* redis.py:56-64 get_by_message_thread_id: what the call can return.
get_by_message_thread_id(message_thread_id) ==
    {IF user_id = None THEN NoRecord ELSE get_user(user_id) :
        user_id \in get_user_id_by_message_thread_id(message_thread_id)}

(* ----------------------------------------------------------- the transport *)
\* create_forum_topic(bot, config, name): the transport creates a topic and
\* returns its id, which no topic had before.
CanCreateTopic == nextThread <= MaxThreads
NewTopicId == nextThread
CreateTopic ==
    /\ alive' = alive \cup {NewTopicId}
    /\ nextThread' = nextThread + 1

\* A forum topic is deleted in the operator group, outside the bot.
DeleteTopic(t) ==
    /\ t \in alive
    /\ deleted < MaxDeletes
    /\ deleted' = deleted + 1
    /\ alive' = alive \ {t}
    /\ UNCHANGED <<storeVars, nextThread, events, taskVars, updVars, out, banCmd, sawBan>>

(* ------------------------------------------------------ handler life cycle *)
\* An inbound event is dispatched to a free task.
Dispatch(p, u, k, limit) ==
    /\ Idle(p)
    /\ events < limit
    /\ events' = events + 1
    /\ kind' = [kind EXCEPT ![p] = k]
    /\ user' = [user EXCEPT ![p] = u]
    /\ base' = [base EXCEPT ![p] = store[u]]
    /\ sawBan' = [sawBan EXCEPT ![p] = banCmd[u]]
    /\ UNCHANGED <<storeVars, deleted, banCmd>>

\* The handler returned (or raised): the task is free again.
Finish(p) ==
    /\ pc[p] \in {"done", "failed"}
    /\ pc' = [pc EXCEPT ![p] = "idle"]
    /\ ret' = [ret EXCEPT ![p] = "idle"]
    /\ kind' = [kind EXCEPT ![p] = "none"]
    /\ user' = [user EXCEPT ![p] = None]
    /\ data' = [data EXCEPT ![p] = NoRecord]
    /\ base' = [base EXCEPT ![p] = NoRecord]
    /\ resent' = [resent EXCEPT ![p] = FALSE]
    /\ attempt' = [attempt EXCEPT ![p] = 0]
    /\ cycles' = [cycles EXCEPT ![p] = 0]
    /\ writes' = [writes EXCEPT ![p] = 0]
    /\ how' = [how EXCEPT ![p] = "none"]
    /\ out' = [out EXCEPT ![p] = "none"]
    /\ sawBan' = [sawBan EXCEPT ![p] = FALSE]
    /\ UNCHANGED <<storeVars, transportVars, dirty, deleted, banCmd>>

\* A handler step that does not call update_user.
Goto(p, l) ==
    /\ pc' = [pc EXCEPT ![p] = l]
    /\ UNCHANGED <<ret, updVars>>

\* The handler sends through the transport (what: the kind of message).
Deliver(p, what) == out' = [out EXCEPT ![p] = what]

(* ------------------------------- admin_commands.py: unban_user_callback,   *)
(* ------------------------------- unban_user_command                        *)
\* A variant that unbans whoever has a record, banned or not.
UnbanUserUnchecked(p, u, limit) ==
    /\ Dispatch(p, u, "unban", limit)
    /\ IF store[u] = NoRecord
       THEN /\ data' = [data EXCEPT ![p] = store[u]]
            /\ Goto(p, "done")
       ELSE /\ data' = [data EXCEPT ![p] = [store[u] EXCEPT !.is_banned = FALSE]]
            /\ CallUpdate(p, "done")
    /\ UNCHANGED <<alive, nextThread, resent, out>>

\* get_user; "not found" and "already unbanned" answer and return;
\* otherwise user_data.is_banned = False and update_user.
UnbanUser(p, u, limit) ==
    /\ Dispatch(p, u, "unban", limit)
    /\ IF store[u] = NoRecord \/ ~store[u].is_banned
       THEN /\ data' = [data EXCEPT ![p] = store[u]]
            /\ Goto(p, "done")
       ELSE /\ data' = [data EXCEPT ![p] = [store[u] EXCEPT !.is_banned = FALSE]]
            /\ CallUpdate(p, "done")
    /\ UNCHANGED <<alive, nextThread, resent, out>>

\* admin_commands.py:114-123: message.text.split() without the command: the
\* arguments of /unban, each a token that int() accepts or not.
UnbanArgs == {<<>>, <<"1">>, <<"2">>, <<"x">>, <<"1", "2">>}
IsNumber(token) == token \in {"1", "2"}
ToInt(token) == IF token = "1" THEN 1 ELSE 2

\* admin_commands.py:115-123: the usage reply, or the reply to a ValueError
\* of int(); the handler returns.
UnbanCommandRejected(p, limit) ==
    /\ Idle(p)
    /\ events < limit
    /\ events' = events + 1
    /\ kind' = [kind EXCEPT ![p] = "unban"]
    /\ Goto(p, "done")
    /\ UNCHANGED <<storeVars, alive, nextThread, user, data, base, resent, obsVars>>

\* admin_commands.py:103-140 unban_user_command.
unban_user_command(p, args, limit) ==
    IF Len(args) # 1 \/ ~IsNumber(args[1])
    THEN UnbanCommandRejected(p, limit)
    ELSE UnbanUser(p, ToInt(args[1]), limit)

(* ------------------------------ my_chat_member.py: handle_chat_member_update *)
\* The user_data the middleware injects: the stored record, or a new
\* UserData on first contact.
InjectedUserData(u) == IF store[u] = NoRecord THEN NewUserData ELSE store[u]

\* my_chat_member.py:34-35: user_data.state = new status; update_user.
ChatMemberUpdate(p, u, status, limit) ==
    /\ Dispatch(p, u, "chat_member", limit)
    /\ data' = [data EXCEPT ![p] = [InjectedUserData(u) EXCEPT !.state = status]]
    /\ CallUpdate(p, "cm_thread")
    /\ UNCHANGED <<alive, nextThread, resent, out>>

\* my_chat_member.py:45-51: no topic yet: create one and store its id.
ChatMemberCreate(p) ==
    /\ pc[p] = "cm_thread"
    /\ data[p].message_thread_id = None
    /\ CanCreateTopic
    /\ CreateTopic
    /\ data' = [data EXCEPT ![p].message_thread_id = NewTopicId]
    /\ CallUpdate(p, "cm_send")
    /\ UNCHANGED <<storeVars, events, kind, user, base, resent, obsVars>>

\* my_chat_member.py:53-58: the notice is sent to the user's topic.
ChatMemberSend(p) ==
    /\ \/ pc[p] = "cm_thread" /\ data[p].message_thread_id # None
       \/ pc[p] = "cm_send"
    /\ data[p].message_thread_id \in alive
    /\ Goto(p, "done")
    /\ Deliver(p, "notice")
    /\ UNCHANGED <<storeVars, transportVars, kind, user, data, base, resent,
                   deleted, banCmd, sawBan>>

\* my_chat_member.py:59-68: "message thread not found": create a new topic
\* and store its id.
ChatMemberRecreate(p) ==
    /\ \/ pc[p] = "cm_thread" /\ data[p].message_thread_id # None
       \/ pc[p] = "cm_send"
    /\ data[p].message_thread_id \notin alive
    /\ CanCreateTopic
    /\ CreateTopic
    /\ data' = [data EXCEPT ![p].message_thread_id = NewTopicId]
    /\ resent' = [resent EXCEPT ![p] = TRUE]
    /\ CallUpdate(p, "cm_resend")
    /\ UNCHANGED <<storeVars, events, kind, user, base, obsVars>>

\* A variant of the repeated send that starts the recovery over when it fails.
ChatMemberResendLoop(p) ==
    /\ pc[p] = "cm_resend"
    /\ IF data[p].message_thread_id \in alive
       THEN Goto(p, "done") /\ Deliver(p, "notice")
       ELSE Goto(p, "cm_send") /\ out' = out
    /\ UNCHANGED <<storeVars, transportVars, kind, user, data, base, resent,
                   deleted, banCmd, sawBan>>

\* my_chat_member.py:69-73: the send is repeated once, outside any try.
ChatMemberResend(p) ==
    /\ pc[p] = "cm_resend"
    /\ IF data[p].message_thread_id \in alive
       THEN Goto(p, "done") /\ Deliver(p, "notice")
       ELSE Goto(p, "failed") /\ out' = out
    /\ UNCHANGED <<storeVars, transportVars, kind, user, data, base, resent,
                   deleted, banCmd, sawBan>>

handle_chat_member_update(p) ==
    \/ ChatMemberCreate(p)
    \/ ChatMemberSend(p)
    \/ ChatMemberRecreate(p)
    \/ ChatMemberResend(p)

(* ------------------------------------------------------- ticket relay core *)
(* The handlers of the operator group and of the users' private messages   *)
(* are modelled from the relay behaviour the specification describes.      *)

\* The user the operator-side topic t belongs to: get_by_message_thread_id
\* (redis.py:56-81) takes the first key of the topic's index hash.
UsersOfThread(t) == index[t]

\* Relay, user side.  An inbound private message of user u; `blocked` is
\* the verdict (should_block) of the security analyzer.
\*   blocked -> not relayed, user informed and operator alerted, no write;
\*   banned  -> nothing is relayed;
\*   passed  -> reopen the ticket, resolve or create the topic, forward.
GateIgnored(should_block) == FALSE
Gate(should_block) == should_block

UserMessage(p, u, blocked, limit) ==
    /\ Dispatch(p, u, IF blocked THEN "blocked_message" ELSE "user_message", limit)
    /\ resent' = resent
    /\ LET rec == InjectedUserData(u)
           t == rec.message_thread_id
           open == [rec EXCEPT !.ticket_status = "open"]
       IN  IF Gate(blocked)
           THEN /\ data' = [data EXCEPT ![p] = rec]
                /\ Goto(p, "done") /\ Deliver(p, "blocked")
                /\ UNCHANGED <<alive, nextThread>>
           ELSE IF rec.is_banned
           THEN /\ data' = [data EXCEPT ![p] = rec]
                /\ Goto(p, "done") /\ Deliver(p, "ignored")
                /\ UNCHANGED <<alive, nextThread>>
           ELSE IF t = None
           THEN /\ CanCreateTopic
                /\ CreateTopic
                /\ data' = [data EXCEPT ![p] = [open EXCEPT !.message_thread_id = NewTopicId]]
                /\ CallUpdate(p, "um_send") /\ out' = out
           ELSE /\ data' = [data EXCEPT ![p] = open]
                /\ Goto(p, "um_send") /\ out' = out
                /\ UNCHANGED <<alive, nextThread>>

\* The relayed message changes the record: awaiting_reply, operator_replied,
\* last_user_message_at.
Relayed(rec, now) ==
    [rec EXCEPT !.awaiting_reply = TRUE,
                !.operator_replied = FALSE,
                !.last_user_message_at = now]

\* The message is forwarded to the user's topic, and the record updated.
UserMessageForward(p) ==
    /\ pc[p] \in {"um_send", "um_resend"}
    /\ data[p].message_thread_id \in alive
    /\ Deliver(p, "to_operator")
    /\ data' = [data EXCEPT ![p] = Relayed(@, events)]
    /\ CallUpdate(p, "done")
    /\ UNCHANGED <<storeVars, transportVars, kind, user, base, resent,
                   deleted, banCmd, sawBan>>

\* The topic no longer exists: recreate it once, store its id, then retry.
UserMessageRecreate(p) ==
    /\ pc[p] = "um_send"
    /\ data[p].message_thread_id \notin alive
    /\ CanCreateTopic
    /\ CreateTopic
    /\ data' = [data EXCEPT ![p].message_thread_id = NewTopicId]
    /\ resent' = [resent EXCEPT ![p] = TRUE]
    /\ CallUpdate(p, "um_resend")
    /\ UNCHANGED <<storeVars, events, kind, user, base, obsVars>>

\* The retried send failed as well: the failure is propagated.
UserMessageFail(p) ==
    /\ pc[p] = "um_resend"
    /\ data[p].message_thread_id \notin alive
    /\ Goto(p, "failed")
    /\ UNCHANGED <<storeVars, transportVars, kind, user, data, base, resent, obsVars>>

handle_user_message(p) ==
    \/ UserMessageForward(p)
    \/ UserMessageRecreate(p)
    \/ UserMessageFail(p)

\* An event of the operator group in topic t is dispatched to its handler,
\* which resolves the target user through the thread index.
DispatchThread(p, t, u, k, limit) ==
    /\ t \in alive
    /\ u \in UsersOfThread(t)
    /\ store[u] # NoRecord
    /\ Dispatch(p, u, k, limit)
    /\ UNCHANGED <<alive, nextThread, resent>>

\* Relay, operator side.  The message is forwarded to the user unless the
\* user is banned or silent mode is on; the reply is recorded either way.
OperatorMessage(p, t, u, limit) ==
    /\ DispatchThread(p, t, u, "operator_message", limit)
    /\ Deliver(p, IF store[u].is_banned \/ store[u].message_silent_mode
                  THEN "held" ELSE "to_user")
    /\ data' = [data EXCEPT ![p] = [store[u] EXCEPT !.awaiting_reply = FALSE,
                                                      !.operator_replied = TRUE]]
    /\ CallUpdate(p, "done")

\* /resolve and /resolvequiet: the ticket is marked resolved; the
\* resolution template is sent to the user unless the variant is quiet.
ResolveTicket(p, t, u, quiet, limit) ==
    /\ DispatchThread(p, t, u, "resolve", limit)
    /\ data' = [data EXCEPT ![p] = [store[u] EXCEPT !.ticket_status = "resolved"]]
    /\ CallUpdate(p, IF quiet THEN "done" ELSE "rs_notice")
    /\ out' = out

ResolveNotice(p) ==
    /\ pc[p] = "rs_notice"
    /\ Goto(p, "done")
    /\ Deliver(p, "resolution")
    /\ UNCHANGED <<storeVars, transportVars, kind, user, data, base, resent,
                   deleted, banCmd, sawBan>>

\* The operator's ban command sets is_banned.
BanUser(p, t, u, limit) ==
    /\ DispatchThread(p, t, u, "ban", limit)
    /\ data' = [data EXCEPT ![p] = [store[u] EXCEPT !.is_banned = TRUE]]
    /\ CallUpdate(p, "done")
    /\ out' = out

\* The operator's silent command toggles silent mode.
ToggleSilent(p, t, u, limit) ==
    /\ DispatchThread(p, t, u, "silent", limit)
    /\ data' = [data EXCEPT ![p] = [store[u] EXCEPT !.message_silent_mode = ~@]]
    /\ CallUpdate(p, "done")
    /\ out' = out

(* ------------------------------------------- manager.py: Manager.send_message *)
(* One private chat and its FSM state.  One send_message call runs at a    *)
(* time; each transport call is a step, its outcome the transport's.  The  *)
(* user deletes messages of the chat between two calls.                    *)
MsgIds == 1..MaxMsgs
Texts == {"a", "b"}
emoji == "emoji"

\* manager.py:24-28 MESSAGE_EDIT_ERRORS, without "message to edit not found".
IsEditErrorNoNotFound(o) == o \in {"cant_edit", "not_modified"}

\* manager.py:24-28 MESSAGE_EDIT_ERRORS
IsEditError(o) == o \in {"cant_edit", "not_modified", "edit_not_found"}

\* manager.py:29-32 MESSAGE_DELETE_ERRORS
IsDeleteError(o) == o \in {"cant_delete", "delete_not_found"}

\* The outcomes bot.edit_message_text can have for message id with `text`:
\* "other" is a TelegramBadRequest with any other message, "down" an
\* exception that is no TelegramBadRequest (network, flood control).
EditOutcomes(id, text) ==
    {"down"} \cup
    (IF chat[id] \in {"unsent", "gone"} THEN {"edit_not_found"}
     ELSE IF chat[id] = text THEN {"not_modified"}
     ELSE {"ok", "cant_edit", "other"})

\* The outcomes bot.delete_message can have for message id.
DeleteOutcomes(id) ==
    {"down"} \cup
    (IF chat[id] \in {"unsent", "gone"} THEN {"delete_not_found"}
     ELSE {"ok", "cant_delete", "other"})

Logged(op, o) == mlog' = Append(mlog, <<op, o>>)

\* A variant of update_data that leaves the tracked id as it is.
TrackNothing(id) == tracked' = tracked

\* manager.py:111, 129: self.state.update_data(message_id=...)
TrackMessage(id) == tracked' = id

\* A variant that edits whenever there is a previous message.
FirstStepEditFirst(replace, prev) == IF prev # None THEN "edit" ELSE "send"

\* manager.py:101, 118: where send_message goes after get_old_message_id.
FirstStep(replace, prev) ==
    IF ~replace /\ prev # None THEN "edit"
    ELSE IF replace THEN "delete"
    ELSE "send"

\* manager.py:99: send_message(text, replace_previous=replace) is called.
Render(text, replace) ==
    /\ mpc = "idle"
    /\ renders < MaxRenders
    /\ renders' = renders + 1
    /\ mtext' = text
    /\ mreplace' = replace
    /\ mprev' = tracked
    /\ mlog' = <<>>
    /\ mpc' = FirstStep(replace, tracked)
    /\ UNCHANGED <<chat, tracked, nextMsg, managerRest>>

\* A variant of the in-place edit that goes on to the delete after any failure.
RenderEditSwallows ==
    /\ mpc = "edit"
    /\ \E o \in EditOutcomes(mprev, mtext) :
          /\ Logged("edit", o)
          /\ IF o = "ok"
             THEN /\ chat' = [chat EXCEPT ![mprev] = mtext]
                  /\ TrackMessage(mprev)
                  /\ mpc' = "returned"
             ELSE /\ mpc' = "delete"
                  /\ UNCHANGED <<chat, tracked>>
    /\ UNCHANGED <<nextMsg, mtext, mreplace, mprev, renders, managerRest>>

\* manager.py:102-116: the in-place edit.
RenderEdit ==
    /\ mpc = "edit"
    /\ \E o \in EditOutcomes(mprev, mtext) :
          /\ Logged("edit", o)
          /\ IF o = "ok"
             THEN /\ chat' = [chat EXCEPT ![mprev] = mtext]
                  /\ TrackMessage(mprev)
                  /\ mpc' = "returned"
             ELSE /\ mpc' = IF IsEditError(o) THEN "delete" ELSE "raised"
                  /\ UNCHANGED <<chat, tracked>>
    /\ UNCHANGED <<nextMsg, mtext, mreplace, mprev, renders, managerRest>>

\* manager.py:168-178 delete_previous_message: no tracked message, or the
\* delete and what follows from its outcome.
RenderDelete ==
    /\ mpc = "delete"
    /\ IF tracked = None
       THEN /\ mpc' = "send"
            /\ UNCHANGED <<chat, mlog>>
       ELSE \E o \in DeleteOutcomes(tracked) :
               /\ Logged("delete", o)
               /\ chat' = IF o = "ok" THEN [chat EXCEPT ![tracked] = "gone"] ELSE chat
               /\ mpc' = IF o = "down" THEN "raised"
                         ELSE IF IsDeleteError(o) THEN "placeholder"
                         ELSE "send"
    /\ UNCHANGED <<tracked, nextMsg, mtext, mreplace, mprev, renders, managerRest>>

\* manager.py:179-187: the message could not be deleted: it is edited to the
\* placeholder emoji.
RenderPlaceholder ==
    /\ mpc = "placeholder"
    /\ \E o \in EditOutcomes(tracked, emoji) :
          /\ Logged("placeholder", o)
          /\ chat' = IF o = "ok" THEN [chat EXCEPT ![tracked] = emoji] ELSE chat
          /\ mpc' = IF o = "ok" \/ IsEditError(o) THEN "send" ELSE "raised"
    /\ UNCHANGED <<tracked, nextMsg, mtext, mreplace, mprev, renders, managerRest>>

\* manager.py:121-129: the new message is sent and its id tracked.
RenderSend ==
    /\ mpc = "send"
    /\ nextMsg \in MsgIds
    /\ \E o \in {"ok", "other", "down"} :
          /\ Logged("send", o)
          /\ IF o = "ok"
             THEN /\ chat' = [chat EXCEPT ![nextMsg] = mtext]
                  /\ nextMsg' = nextMsg + 1
                  /\ TrackMessage(nextMsg)
                  /\ mpc' = "returned"
             ELSE /\ mpc' = "raised"
                  /\ UNCHANGED <<chat, nextMsg, tracked>>
    /\ UNCHANGED <<mtext, mreplace, mprev, renders, managerRest>>

\* send_message returned or raised: the handler goes on.
RenderEnd ==
    /\ mpc \in {"returned", "raised"}
    /\ mpc' = "idle"
    /\ mlog' = <<>>
    /\ UNCHANGED <<chat, tracked, nextMsg, mtext, mreplace, mprev, renders, managerRest>>

\* The user deletes a message of the chat.
UserDeletesMessage(id) ==
    /\ mpc = "idle"
    /\ chat[id] \notin {"unsent", "gone"}
    /\ chat' = [chat EXCEPT ![id] = "gone"]
    /\ UNCHANGED <<tracked, nextMsg, mpc, mtext, mreplace, mprev, mlog, renders, managerRest>>

send_message ==
    \/ RenderEdit
    \/ RenderDelete
    \/ RenderPlaceholder
    \/ RenderSend
    \/ RenderEnd

ManagerInit ==
    /\ chat = [id \in 1..(MaxMsgs + 1) |-> "unsent"]
    /\ tracked = None
    /\ nextMsg = 1
    /\ mpc = "idle"
    /\ mtext = "a"
    /\ mreplace = TRUE
    /\ mprev = None
    /\ mlog = <<>>
    /\ renders = 0

(* ------------------------- throttling.py: ThrottlingMiddleware.__call__ *)
\* Senders of events, and the throttling keys that have a cache: the default
\* key and one key of ttl_map.  A handler flagged with the key "free" names a
\* key without a cache.
ThrottleUsers == 1..(maxsize + 1)
ThrottleKeys == {"default", "slow"}
FlagKeys == ThrottleKeys \cup {"free"}
\* The window of each key, in ticks.
ttl_map == [k \in ThrottleKeys |-> IF k = "default" THEN 1 ELSE 2]

\* A cache that does not tell its users apart.
ContainsAnyone(cache, u) ==
    \E i \in 1..Len(cache) : clock < cache[i][2]

\* TTLCache.__contains__: the key is linked and its entry has not expired.
Contains(cache, u) ==
    \E i \in 1..Len(cache) : cache[i][1] = u /\ clock < cache[i][2]

\* TTLCache.expire: the expired entries are removed.
Expire(cache) == SelectSeq(cache, LAMBDA e : clock < e[2])

\* The entry is stored already expired.
SetItemExpired(cache, u, k) ==
    LET rest == SelectSeq(Expire(cache), LAMBDA e : e[1] # u)
        room == IF Len(rest) + 1 > maxsize THEN Tail(rest) ELSE rest
    IN  Append(room, <<u, clock>>)

\* TTLCache.__setitem__: expired entries go first, then the oldest entry if
\* the cache is full, and the new entry expires ttl after the current time.
SetItem(cache, u, k) ==
    LET rest == SelectSeq(Expire(cache), LAMBDA e : e[1] # u)
        room == IF Len(rest) + 1 > maxsize THEN Tail(rest) ELSE rest
    IN  Append(room, <<u, clock + ttl_map[k]>>)

\* self.caches.get(throttling_key) is not None: the key has a cache.
HasCache(k) == k \in ThrottleKeys

\* The event is passed on: return await handler(event, data).
PassToHandler(u, k) ==
    /\ invoked' = invoked + 1
    /\ last' = [user |-> u, key |-> k, result |-> "handled"]

\* A variant in which a dropped event opens the window of its sender anew.
ThrottledCallRestarts(u, k) ==
    /\ arrived < MaxThrottleEvents
    /\ arrived' = arrived + 1
    /\ IF u # None /\ HasCache(k) /\ Contains(caches[k], u)
         THEN /\ last' = [user |-> u, key |-> k, result |-> "none"]
              /\ caches' = [caches EXCEPT ![k] = SetItem(@, u, k)]
              /\ UNCHANGED <<invoked, accepted, since>>
         ELSE /\ IF u # None /\ HasCache(k)
                   THEN /\ caches' = [caches EXCEPT ![k] = SetItem(@, u, k)]
                        /\ accepted' = [accepted EXCEPT ![u][k] = clock]
                        /\ since' = [v \in ThrottleUsers |->
                                       IF v = u THEN [since[v] EXCEPT ![k] = 0]
                                       ELSE [since[v] EXCEPT ![k] =
                                               IF accepted[v][k] >= 0 THEN @ + 1 ELSE @]]
                   ELSE UNCHANGED <<caches, accepted, since>>
              /\ PassToHandler(u, k)
    /\ UNCHANGED <<clock, throttleRest>>

\* One event of sender u (None: an event without a sender) for a handler
\* flagged with key k.
ThrottledCall(u, k) ==
    /\ arrived < MaxThrottleEvents
    /\ arrived' = arrived + 1
    /\ IF u # None /\ HasCache(k) /\ Contains(caches[k], u)
         THEN \* the message is deleted as far as possible; return None
              /\ last' = [user |-> u, key |-> k, result |-> "none"]
              /\ UNCHANGED <<caches, invoked, accepted, since>>
         ELSE /\ IF u # None /\ HasCache(k)
                   THEN /\ caches' = [caches EXCEPT ![k] = SetItem(@, u, k)]
                        /\ accepted' = [accepted EXCEPT ![u][k] = clock]
                        /\ since' = [v \in ThrottleUsers |->
                                       IF v = u THEN [since[v] EXCEPT ![k] = 0]
                                       ELSE [since[v] EXCEPT ![k] =
                                               IF accepted[v][k] >= 0 THEN @ + 1 ELSE @]]
                   ELSE UNCHANGED <<caches, accepted, since>>
              /\ PassToHandler(u, k)
    /\ UNCHANGED <<clock, throttleRest>>

\* Time passes.
Tick ==
    /\ clock < MaxClock
    /\ clock' = clock + 1
    /\ UNCHANGED <<caches, arrived, invoked, last, accepted, since, throttleRest>>

\* ThrottlingMiddleware.__init__: one empty cache per key.
ThrottleInit ==
    /\ caches = [k \in ThrottleKeys |-> <<>>]
    /\ clock = 0
    /\ arrived = 0
    /\ invoked = 0
    /\ last = [user |-> None, key |-> "default", result |-> "none"]
    /\ accepted = [u \in ThrottleUsers |-> [k \in ThrottleKeys |-> -1]]
    /\ since = [u \in ThrottleUsers |-> [k \in ThrottleKeys |-> 0]]

(* --------- __main__.py: main; migrations/panel.py; migrations/security.py *)
\* A display name is a sequence of tokens: "s" is a token one of the
\* analyzer's patterns matches, "w" any other word.
Names == {<<"w">>, <<"s", "w">>, <<"s", "s">>}
\* placeholder = f"User {user_data.id}"
Placeholder(id) == <<"User", ToString(id)>>

\* The tokens of a display name the analyzer's patterns match: an invite
\* link, a service-brand keyword, a raw "@", and "s" for any of them.
Matched(t) == t \in {"s", "invite", "brand", "at"}

\* Only the first matched token is removed.
sanitize_first_match(name, placeholder) ==
    LET hits == {i \in 1..Len(name) : Matched(name[i])}
        kept == IF hits = {} THEN name
                ELSE LET i == CHOOSE j \in hits : \A h \in hits : j <= h
                     IN  SubSeq(name, 1, i - 1) \o SubSeq(name, i + 1, Len(name))
    IN  IF kept = <<>> THEN placeholder ELSE kept

\* sanitize_display_name(name, placeholder): every matched token is
\* stripped; the placeholder if nothing is left.
sanitize_display_name(name, placeholder) ==
    LET kept == SelectSeq(name, LAMBDA t : ~Matched(t))
    IN  IF kept = <<>> THEN placeholder ELSE kept

\* The two steps.
panel == "ensure_operator_replied_flag"
security == "sanitize_existing_display_names"
Steps == {panel, security}

\* A stored record as the steps see it: the JSON object with the fields they
\* read or write.  operator_replied is the JSON literal, and a record
\* written before the field existed has no such key.
StoredRecord(name, thread, flag) ==
    IF flag = "absent"
    THEN [full_name |-> name, message_thread_id |-> thread]
    ELSE [full_name |-> name, message_thread_id |-> thread, operator_replied |-> flag]

\* get_user: UserData(**decoded_data), a missing key takes the default of
\* the dataclass (operator_replied: bool = False).
LoadUser(raw) == Merge([operator_replied |-> "false"], raw)

\* get_all_users_ids: the keys of the hash "users".
RECURSIVE Ascending(_)
Ascending(S) ==
    IF S = {} THEN <<>>
    ELSE LET m == CHOOSE x \in S : \A y \in S : x <= y
         IN  <<m>> \o Ascending(S \ {m})
get_all_users_ids == Ascending({u \in Users : store[u] # NoRecord})

Step == migrations[stepNo]
Running(s) == boot = "migrating" /\ stepNo <= Len(migrations) /\ Step = s

\* An exception leaves the step, run_migrations and main: the process ends
\* without start_polling.
Raise ==
    /\ spc' = "raised"
    /\ boot' = "aborted"

\* Both steps begin with user_ids = await context.storage.get_all_users_ids().
StepStart ==
    /\ boot = "migrating" /\ spc = "idle" /\ stepNo <= Len(migrations)
    /\ ids' = get_all_users_ids
    /\ cur' = 1
    /\ spc' = "scan"
    /\ sincePause' = 0
    /\ fresh' = (produced[Step] = store)
    /\ UNCHANGED <<store, index, alive, topicName, boot, migrations, stepNo, urec,
                   needs, produced, ran, startups, polled, migrationRest>>

\* update_user(id, user) while no handler runs: the record merged over the
\* stored one, then the index entry of its thread.
StepWrite(to) ==
    /\ spc = "write"
    /\ store' = hset(store, ids[cur], Merge(store[ids[cur]], to_dict(urec)))
    /\ index' = IF urec.message_thread_id = None THEN index
                ELSE [index EXCEPT ![urec.message_thread_id] = @ \cup {ids[cur]}]
    /\ spc' = to
    /\ UNCHANGED <<alive, topicName, boot, migrations, stepNo, ids, urec, needs,
                   sincePause, produced, fresh, ran, startups, polled, migrationRest>>

\* The next turn of the for loop.
Continue ==
    /\ cur' = cur + 1
    /\ spc' = "scan"

\* await context.sleep(), then the next turn of the loop.
StepSleep ==
    /\ boot = "migrating" /\ spc = "sleep"
    /\ sincePause' = 0
    /\ Continue
    /\ UNCHANGED <<store, index, alive, topicName, boot, migrations, stepNo, ids,
                   urec, needs, produced, fresh, ran, startups, polled, migrationRest>>

\* A variant of the panel step that writes every record it reads.
PanelScanWritesAll ==
    /\ Running(panel) /\ spc = "scan"
    /\ IF cur > Len(ids)
         THEN spc' = "done" /\ UNCHANGED <<cur, urec, sincePause>>
         ELSE IF store[ids[cur]] = NoRecord
         THEN Continue /\ UNCHANGED <<urec, sincePause>>
         ELSE LET loaded == LoadUser(store[ids[cur]])
              IN  /\ sincePause' = sincePause + 1
                  /\ cur' = cur
                  /\ urec' = IF loaded.operator_replied = "null"
                             THEN [loaded EXCEPT !.operator_replied = "false"]
                             ELSE loaded
                  /\ spc' = "write"
    /\ UNCHANGED <<store, index, alive, topicName, boot, migrations, stepNo, ids,
                   needs, produced, fresh, ran, startups, polled, migrationRest>>

\* panel.py:16-23, one record: read it, set a flag that is None.
PanelScan ==
    /\ Running(panel) /\ spc = "scan"
    /\ IF cur > Len(ids)
         THEN spc' = "done" /\ UNCHANGED <<cur, urec, sincePause>>
         ELSE IF store[ids[cur]] = NoRecord
         THEN Continue /\ UNCHANGED <<urec, sincePause>>
         ELSE LET loaded == LoadUser(store[ids[cur]])
              IN  /\ sincePause' = sincePause + 1
                  /\ cur' = cur
                  /\ IF loaded.operator_replied = "null"
                       THEN /\ urec' = [loaded EXCEPT !.operator_replied = "false"]
                            /\ spc' = "write"
                       ELSE /\ urec' = loaded
                            /\ spc' = "sleep"
    /\ UNCHANGED <<store, index, alive, topicName, boot, migrations, stepNo, ids,
                   needs, produced, fresh, ran, startups, polled, migrationRest>>

PanelWrite == Running(panel) /\ StepWrite("sleep") /\ UNCHANGED cur

ensure_operator_replied_flag ==
    \/ PanelScan
    \/ PanelWrite

\* security.py:22-34, one record: read it, sanitize its name.
SecurityScan ==
    /\ Running(security) /\ spc = "scan"
    /\ IF cur > Len(ids)
         THEN spc' = "done" /\ UNCHANGED <<cur, urec, needs, sincePause>>
         ELSE IF store[ids[cur]] = NoRecord
         THEN Continue /\ UNCHANGED <<urec, needs, sincePause>>
         ELSE LET user_data == LoadUser(store[ids[cur]])
                  sanitized_full_name ==
                      sanitize_display_name(user_data.full_name, Placeholder(ids[cur]))
                  needs_update == sanitized_full_name # user_data.full_name
              IN  /\ sincePause' = sincePause + 1
                  /\ needs' = needs_update
                  /\ IF needs_update
                       THEN /\ urec' = [user_data EXCEPT !.full_name = sanitized_full_name]
                            /\ cur' = cur
                            /\ spc' = "write"
                       ELSE /\ urec' = user_data
                            /\ Continue
    /\ UNCHANGED <<store, index, alive, topicName, boot, migrations, stepNo, ids,
                   produced, fresh, ran, startups, polled, migrationRest>>

\* security.py:34-37: the write, then `continue` for a record without thread.
SecurityWrite ==
    /\ Running(security)
    /\ StepWrite(IF urec.message_thread_id = None THEN "scan" ELSE "edit")
    /\ cur' = IF urec.message_thread_id = None THEN cur + 1 ELSE cur

\* security.py:40-46: rename the topic; a TelegramBadRequest is suppressed
\* together with the pause, any other error leaves the step.
SecurityEdit ==
    /\ Running(security) /\ spc = "edit"
    /\ \E o \in (IF urec.message_thread_id \in alive THEN {"ok"} ELSE {"bad_request"})
                 \cup {"down"} :
          CASE o = "ok" ->
                 /\ topicName' = [topicName EXCEPT ![urec.message_thread_id] = urec.full_name]
                 /\ spc' = "sleep"
                 /\ UNCHANGED <<cur, boot>>
            [] o = "bad_request" ->
                 /\ Continue
                 /\ UNCHANGED <<topicName, boot>>
            [] OTHER ->
                 /\ Raise
                 /\ UNCHANGED <<topicName, cur>>
    /\ UNCHANGED <<store, index, alive, migrations, stepNo, ids, urec, needs,
                   sincePause, produced, fresh, ran, startups, polled, migrationRest>>

sanitize_existing_display_names ==
    \/ SecurityScan
    \/ SecurityWrite
    \/ SecurityEdit

\* run_migrations: the step returned, the next one is due.
StepReturn ==
    /\ boot = "migrating" /\ spc = "done"
    /\ ran' = Append(ran, Step)
    /\ produced' = [produced EXCEPT ![Step] = store]
    /\ stepNo' = stepNo + 1
    /\ spc' = "idle"
    /\ UNCHANGED <<store, index, alive, topicName, boot, migrations, ids, cur, urec,
                   needs, sincePause, fresh, startups, polled, migrationRest>>

\* Polling starts while steps are still due.
start_polling_at_once ==
    /\ boot = "migrating" /\ spc = "idle"
    /\ boot' = "polling"
    /\ UNCHANGED <<store, index, alive, topicName, migrations, stepNo, spc, ids, cur,
                   urec, needs, sincePause, produced, fresh, ran, startups, polled,
                   migrationRest>>

\* __main__.py:137-146: run_migrations returned; delete_webhook, start_polling.
start_polling ==
    /\ boot = "migrating" /\ spc = "idle" /\ stepNo > Len(migrations)
    /\ boot' = "polling"
    /\ UNCHANGED <<store, index, alive, topicName, migrations, stepNo, spc, ids, cur,
                   urec, needs, sincePause, produced, fresh, ran, startups, polled,
                   migrationRest>>

\* The dispatcher hands an update to its handler.
HandleUpdate ==
    /\ boot = "polling"
    /\ polled < MaxPolled
    /\ polled' = polled + 1
    /\ UNCHANGED <<store, index, alive, topicName, boot, migrations, stepNo, spc, ids,
                   cur, urec, needs, sincePause, produced, fresh, ran, startups,
                   migrationRest>>

\* The process that ended, or was stopped while polling, is started again.
Restart ==
    /\ boot \in {"polling", "aborted"}
    /\ startups < MaxStartups
    /\ startups' = startups + 1
    /\ boot' = "migrating"
    /\ stepNo' = 1
    /\ spc' = "idle"
    /\ ran' = <<>>
    /\ polled' = 0
    /\ UNCHANGED <<store, index, alive, topicName, migrations, ids, cur, urec, needs,
                   sincePause, produced, fresh, migrationRest>>

\* main before run_migrations, on the first start of the process.
MigrationInit ==
    /\ topicName = [t \in 1..(MaxThreads + 1) |-> <<"w">>]
    /\ boot = "migrating"
    /\ migrations \in {<<panel, security>>, <<security, panel>>}
    /\ stepNo = 1
    /\ spc = "idle"
    /\ ids = <<>>
    /\ cur = 1
    /\ urec = NoRecord
    /\ needs = FALSE
    /\ sincePause = 0
    /\ produced = [s \in Steps |-> <<>>]
    /\ fresh = FALSE
    /\ ran = <<>>
    /\ startups = 1
    /\ polled = 0

(* ------------------------------------------- settings.py: SettingsStorage *)
\* A string is the sequence of its characters.  The two prefixes, shortened
\* to a first letter and the colon: neither begins with the other.
GREETING_PREFIX == <<"g", ":">>
RESOLVED_PREFIX == <<"r", ":">>
Categories == {"greeting", "resolved_message"}
PrefixOf(c) == IF c = "greeting" THEN GREETING_PREFIX ELSE RESOLVED_PREFIX

\* Languages, one of them spelled like the other category's prefix, and the
\* override texts, the empty text included.
Languages == {<<"e">>, <<"r", ":">>}
SettingTexts == {"", "a"}

\* hget returned None / the field is not in the hash.
Absent == <<>>

\* f"{prefix}{language}"
KeyOf(prefix, language) == prefix \o language

\* Fields of the hash that no category owns.
UnrelatedKeys == {<<"u">>, <<"g">>}
SettingsKeys ==
    {KeyOf(PrefixOf(c), l) : c \in Categories, l \in Languages} \cup UnrelatedKeys

\* Every field passes the filter.
startswith_anything(key, prefix) == TRUE

\* decoded_key.startswith(prefix)
startswith(key, prefix) ==
    Len(key) >= Len(prefix) /\ SubSeq(key, 1, Len(prefix)) = prefix

\* _collect_prefixed: the fields of the hash whose key starts with the
\* prefix, as (language, text) pairs, language = decoded_key[len(prefix):].
collect_prefixed(h, prefix) ==
    {<<SubSeq(k, Len(prefix) + 1, Len(k)), h[k][1]>> :
        k \in {f \in DOMAIN h : h[f] # Absent /\ startswith(f, prefix)}}

\* _get_prefixed_value: hget of the field, None (Absent) or the text.
get_prefixed_value(h, prefix, language) == h[KeyOf(prefix, language)]

\* HDEL that removes nothing.
hdel_nothing(h, key) == h

\* HDEL: the hash without the field.
hdel(h, key) == [h EXCEPT ![key] = Absent]

\* set_greeting / set_resolved_message -> _set_prefixed_value
SetValue(c, l, t) ==
    /\ settings' = hset(settings, KeyOf(PrefixOf(c), l), <<t>>)
    /\ slast' = [op |-> "set", category |-> c, language |-> l, text |-> t,
                 value |-> Absent, listing |-> {}]
    /\ overrides' = [overrides EXCEPT ![c] =
                        {o \in @ : o[1] # l} \cup {<<l, t>>}]
    /\ wasSet' = wasSet \cup {<<c, l>>}
    /\ UNCHANGED settingsRest

\* reset_greeting / reset_resolved_message -> _reset_prefixed_value
ResetValue(c, l) ==
    /\ settings' = hdel(settings, KeyOf(PrefixOf(c), l))
    /\ slast' = [op |-> "reset", category |-> c, language |-> l, text |-> "",
                 value |-> Absent, listing |-> {}]
    /\ overrides' = [overrides EXCEPT ![c] = {o \in @ : o[1] # l}]
    /\ UNCHANGED <<wasSet, settingsRest>>

\* get_greeting / get_resolved_message -> _get_prefixed_value
GetValue(c, l) ==
    /\ slast' = [op |-> "get", category |-> c, language |-> l, text |-> "",
                 value |-> get_prefixed_value(settings, PrefixOf(c), l),
                 listing |-> {}]
    /\ UNCHANGED <<settings, overrides, wasSet, settingsRest>>

\* get_all_greetings / get_all_resolved_messages -> _collect_prefixed
GetAll(c) ==
    /\ slast' = [op |-> "get_all", category |-> c, language |-> <<>>, text |-> "",
                 value |-> Absent,
                 listing |-> collect_prefixed(settings, PrefixOf(c))]
    /\ UNCHANGED <<settings, overrides, wasSet, settingsRest>>

\* The hash before any override is set; it may hold fields of others.
SettingsInit ==
    /\ settings \in [SettingsKeys -> {Absent, <<"x">>}]
    /\ \A k \in SettingsKeys \ UnrelatedKeys : settings[k] = Absent
    /\ slast = [op |-> "none", category |-> "greeting", language |-> <<>>,
                text |-> "", value |-> Absent, listing |-> {}]
    /\ overrides = [c \in Categories |-> {}]
    /\ wasSet = {}

(* ------------------------------------------------------ faq.py: FAQStorage *)
\* Item ids, the handler tasks calling the store, titles and contents
\* (text and attachments taken together).
FaqIds == 1..MaxItems
\* The fields of the hash: the ids uuid4 gives, and 0 for an id it never gave.
ItemKeys == {0} \cup FaqIds
FaqProcs == {1, 2}
Titles == {"t1", "t2"}
Contents == {"c1", "c2"}
NoArg == [id |-> None, title |-> "", text |-> ""]
NoItem == <<>>

\* FAQItem(id, title, text, attachments)
FAQItem(id, title, text) == [id |-> id, title |-> title, text |-> text]
\* FAQItem.to_json: the fields of the item as a JSON object.
to_json(item) == [k \in {"id", "title", "text"} |-> item[k]]
\* FAQItem.from_json: the item built from the fields of the JSON object.
from_json(payload) == FAQItem(payload["id"], payload["title"], payload["text"])

\* LPUSH: the id goes to the head of the list.
lpush(list, id) == <<id>> \o list
\* RPUSH: the id goes to the end of the list.
rpush(list, id) == Append(list, id)
\* LREM key 0 id: every occurrence of the id is removed.
lrem(list, id) == SelectSeq(list, LAMBDA e : e # id)

\* The call of caller p returns r.
FaqReturn(p, r) ==
    /\ fres' = [fres EXCEPT ![p] = r]
    /\ fpc' = [fpc EXCEPT ![p] = "idle"]
    /\ fitem' = [fitem EXCEPT ![p] = NoItem]
    /\ fraw' = [fraw EXCEPT ![p] = <<>>]
    /\ facc' = [facc EXCEPT ![p] = <<>>]

\* Caller p enters a method.  add_item builds its FAQItem with a new uuid4
\* before it touches the store.
FaqCall(p, op, id, title, text) ==
    /\ fpc[p] = "idle"
    /\ fcalls < MaxFaqCalls
    /\ op = "add_item" => nextId <= MaxItems
    /\ fcalls' = fcalls + 1
    /\ fop' = [fop EXCEPT ![p] = op]
    /\ farg' = [farg EXCEPT ![p] =
                  CASE op = "add_item" -> [id |-> nextId, title |-> title, text |-> text]
                    [] op = "rename_item" -> [id |-> id, title |-> title, text |-> ""]
                    [] op = "update_content" -> [id |-> id, title |-> "", text |-> text]
                    [] op = "list_items" -> NoArg
                    [] OTHER -> [id |-> id, title |-> "", text |-> ""]]
    /\ fitem' = [fitem EXCEPT ![p] =
                   IF op = "add_item" THEN FAQItem(nextId, title, text) ELSE NoItem]
    /\ nextId' = IF op = "add_item" THEN nextId + 1 ELSE nextId
    /\ removed' = IF op = "delete_item" THEN removed \cup {id} ELSE removed
    /\ fpc' = [fpc EXCEPT ![p] =
                  CASE op = "add_item" -> "hset"
                    [] op = "delete_item" -> "hdel"
                    [] op = "list_items" -> "lrange"
                    [] OTHER -> "hget"]
    /\ UNCHANGED <<items, order, fraw, facc, fres, added, faqRest>>

\* faq.py:109  hset(ITEMS_KEY, item.id, item.to_json())
AddHset(p) ==
    /\ fpc[p] = "hset" /\ fop[p] = "add_item"
    /\ items' = hset(items, fitem[p].id, to_json(fitem[p]))
    /\ fpc' = [fpc EXCEPT ![p] = "rpush"]
    /\ UNCHANGED <<order, nextId, fcalls, fop, farg, fitem, fraw, facc, fres, added,
                   removed, faqRest>>

\* faq.py:110-111  rpush(ORDER_KEY, item.id); return item
AddRpush(p) ==
    /\ fpc[p] = "rpush"
    /\ order' = rpush(order, fitem[p].id)
    /\ added' = Append(added, fitem[p].id)
    /\ FaqReturn(p, <<fitem[p]>>)
    /\ UNCHANGED <<items, nextId, fcalls, fop, farg, removed, faqRest>>

add_item(p) ==
    \/ AddHset(p)
    \/ AddRpush(p)

\* faq.py:84-93 get_item, called by a handler, by rename_item or by
\* update_content (faq.py:120-123, 135-139): None for a missing entry,
\* else the item, with the new title or content set on it.
GetItem(p) ==
    /\ fpc[p] = "hget"
    /\ LET payload == items[farg[p].id]
           item == from_json(payload)
       IN  IF payload = Absent
           THEN FaqReturn(p, <<>>)
           ELSE CASE fop[p] = "rename_item" ->
                       /\ fitem' = [fitem EXCEPT ![p] = [item EXCEPT !.title = farg[p].title]]
                       /\ fpc' = [fpc EXCEPT ![p] = "update"]
                       /\ UNCHANGED <<fraw, facc, fres>>
                  [] fop[p] = "update_content" ->
                       /\ fitem' = [fitem EXCEPT ![p] = [item EXCEPT !.text = farg[p].text]]
                       /\ fpc' = [fpc EXCEPT ![p] = "update"]
                       /\ UNCHANGED <<fraw, facc, fres>>
                  [] OTHER -> FaqReturn(p, <<item>>)
    /\ UNCHANGED <<items, order, nextId, fcalls, fop, farg, added, removed, faqRest>>

\* faq.py:113-116 update_item, then rename_item / update_content return the item.
update_item(p) ==
    /\ fpc[p] = "update"
    /\ items' = hset(items, fitem[p].id, to_json(fitem[p]))
    /\ FaqReturn(p, <<fitem[p]>>)
    /\ UNCHANGED <<order, nextId, fcalls, fop, farg, added, removed, faqRest>>

\* faq.py:146  hdel(ITEMS_KEY, item_id)
DeleteHdel(p) ==
    /\ fpc[p] = "hdel"
    /\ items' = hdel(items, farg[p].id)
    /\ fpc' = [fpc EXCEPT ![p] = "lrem"]
    /\ UNCHANGED <<order, nextId, fcalls, fop, farg, fitem, fraw, facc, fres, added,
                   removed, faqRest>>

\* faq.py:147  lrem(ORDER_KEY, 0, item_id)
DeleteLrem(p) ==
    /\ fpc[p] = "lrem"
    /\ order' = lrem(order, farg[p].id)
    /\ FaqReturn(p, <<>>)
    /\ UNCHANGED <<items, nextId, fcalls, fop, farg, added, removed, faqRest>>

delete_item(p) ==
    \/ DeleteHdel(p)
    \/ DeleteLrem(p)

\* faq.py:66-69  raw_ids = lrange(ORDER_KEY, 0, -1)
ListLrange(p) ==
    /\ fpc[p] = "lrange"
    /\ fraw' = [fraw EXCEPT ![p] = order]
    /\ facc' = [facc EXCEPT ![p] = <<>>]
    /\ fpc' = [fpc EXCEPT ![p] = "fetch"]
    /\ UNCHANGED <<items, order, nextId, fcalls, fop, farg, fitem, fres, added,
                   removed, faqRest>>

\* faq.py:70-76  one turn of the loop: get_item, kept unless None; or the
\* end of the loop and the return.
ListFetch(p) ==
    /\ fpc[p] = "fetch"
    /\ IF fraw[p] = <<>>
         THEN FaqReturn(p, facc[p])
         ELSE /\ facc' = [facc EXCEPT ![p] =
                            IF items[Head(fraw[p])] = Absent THEN @
                            ELSE Append(@, from_json(items[Head(fraw[p])]))]
              /\ fraw' = [fraw EXCEPT ![p] = Tail(@)]
              /\ UNCHANGED <<fpc, fitem, fres>>
    /\ UNCHANGED <<items, order, nextId, fcalls, fop, farg, added, removed, faqRest>>

list_items(p) ==
    \/ ListLrange(p)
    \/ ListFetch(p)

\* FAQStorage on an empty store.
FaqInit ==
    /\ items = [i \in ItemKeys |-> Absent]
    /\ order = <<>>
    /\ nextId = 1
    /\ fcalls = 0
    /\ fpc = [p \in FaqProcs |-> "idle"]
    /\ fop = [p \in FaqProcs |-> "none"]
    /\ farg = [p \in FaqProcs |-> NoArg]
    /\ fitem = [p \in FaqProcs |-> NoItem]
    /\ fraw = [p \in FaqProcs |-> <<>>]
    /\ facc = [p \in FaqProcs |-> <<>>]
    /\ fres = [p \in FaqProcs |-> <<>>]
    /\ added = <<>>
    /\ removed = {}

(* ------------------ security.py: analyze_user_message, sanitize_display_name; *)
(* ------------------ language.py: resolve_language_code                        *)
\* A text is the sequence of its tokens.  A display name holds plain words
\* "w", invite links "invite", service-brand keywords "brand" and raw "@"
\* characters "at"; a message text holds plain words, invite links and
\* generic URLs "url".  A handle is absent (<<>>), an ordinary one, whose
\* leading "@" is where it is expected, or one holding a brand keyword.
NameTokens == {"w", "invite", "brand", "at"}
TextTokens == {"w", "invite", "url"}
SeqsUpTo(S, n) == UNION {[1..k -> S] : k \in 0..n}
FullNames == SeqsUpTo(NameTokens, MaxNameLen)
Handles == {<<>>, <<"w">>, <<"brand">>}
MessageTexts == SeqsUpTo(TextTokens, MaxTextLen)
Has(text, token) == \E i \in 1..Len(text) : text[i] = token

\* The battery of pattern checks, each with the reason it reports.
invite_link == "invite link t.me/+"
brand_keyword == "service keyword telegram"
at_in_name == "@ in the name"
generic_url == "generic url"
PatternChecks == {invite_link, brand_keyword, at_in_name, generic_url}

\* The severity table.
severity ==
    [c \in PatternChecks |->
        IF c \in {invite_link, brand_keyword} THEN "high" ELSE "medium"]

\* The checks that match the display name, the handle and the message text.
matches(full_name, username, message_text) ==
    {c \in PatternChecks :
        \/ c = invite_link /\ (Has(full_name, "invite") \/ Has(message_text, "invite"))
        \/ c = brand_keyword /\ (Has(full_name, "brand") \/ Has(username, "brand"))
        \/ c = at_in_name /\ Has(full_name, "at")
        \/ c = generic_url /\ Has(message_text, "url")}

\* result.triggered, as the tests of the analyzer pin it down: a generic URL
\* that is the only match does not trigger, a raw "@" in the name does.
triggered(high, medium) == high # {} \/ medium \ {generic_url} # {}

\* result.should_block.
should_block(high, medium) == high # {}

\* analyze_user_message(full_name, username, message_text).
analyze_user_message(full_name, username, message_text) ==
    LET found == matches(full_name, username, message_text)
        high == {c \in found : severity[c] = "high"}
        medium == {c \in found : severity[c] = "medium"}
    IN  [high |-> high, medium |-> medium,
         triggered |-> triggered(high, medium),
         should_block |-> should_block(high, medium)]

\* The placeholders a caller passes: f"User {id}" of the callers, and a text
\* that itself holds a raw "@".
Placeholders == {Placeholder(1), <<"at", "w">>}

\* SUPPORTED_LANGUAGES, in the order of its keys.
SUPPORTED_LANGUAGES == <<"ru", "en">>
Supported == {SUPPORTED_LANGUAGES[i] : i \in 1..Len(SUPPORTED_LANGUAGES)}

\* The values resolve_language_code is given: None is <<>>, a string c is <<c>>.
Codes == {"ru", "en", "xx", "RU", ""}
LanguageValues == {<<>>} \cup {<<c>> : c \in Codes}

\* The value is returned whatever it is; the first key stands in for None only.
resolve_language_code_unchecked(value) ==
    IF value # <<>> THEN value[1] ELSE SUPPORTED_LANGUAGES[1]

\* resolve_language_code(value).
resolve_language_code(value) ==
    IF value # <<>> /\ value[1] \in Supported
    THEN value[1]
    ELSE SUPPORTED_LANGUAGES[1]

\* A call of each helper, recorded with what it returned.
Analyze(full_name, username, message_text) ==
    /\ ucall' = [fn |-> "analyze_user_message", full_name |-> full_name,
                 username |-> username, message_text |-> message_text,
                 result |-> analyze_user_message(full_name, username, message_text)]
    /\ UNCHANGED utilsRest

Sanitize(name, placeholder) ==
    /\ ucall' = [fn |-> "sanitize_display_name", name |-> name,
                 placeholder |-> placeholder,
                 result |-> sanitize_display_name(name, placeholder)]
    /\ UNCHANGED utilsRest

Resolve(value) ==
    /\ ucall' = [fn |-> "resolve_language_code", value |-> value,
                 result |-> resolve_language_code(value)]
    /\ UNCHANGED utilsRest

UtilsInit == ucall = [fn |-> "none"]

(* ------------------------------------------- scripts/redis_backup.py: backup *)
\* A path of the backup directory: the name build_filename gives a backup
\* taken at a time stamp, with the suffix of a plain or of a compressed dump,
\* and what with_name appends to such a name.
Stamps == {"t1", "t2"}
Suffixes == {".rdb", ".rdb.gz"}
BackupPaths == [stamp : Stamps, suffix : Suffixes, ext : {"", ".tmp", ".sha256"}]
\* The names a caller can give with --output, or a time stamp can produce.
OutputPaths == {p \in BackupPaths : p.ext = ""}

\* redis_backup.py:50-57 build_filename, default_output_path
build_filename(now, compress) ==
    [stamp |-> now, suffix |-> IF compress THEN ".rdb.gz" ELSE ".rdb", ext |-> ""]

\* output_path.with_name(f"{output_path.name}.tmp"), and the same with .sha256
with_name(path, ext) == [path EXCEPT !.ext = ext]

\* redis_backup.py:141-149  output_path and tmp_target
output_path(args) ==
    IF args.output # <<>> THEN args.output[1] ELSE build_filename(args.now, args.compress)
tmp_target(args) ==
    IF args.compress THEN with_name(output_path(args), ".tmp") ELSE output_path(args)

\* path.exists()
exists(path) == files[path] # Absent

\* gzip of a file's content.
gzip(content) == IF content = "dump" THEN "dump.gz" ELSE "other.gz"

\* redis_backup.py:106-118 collect_backups: the files of the directory that
\* have the prefix and exactly the suffix.
collect_backups(suffix) == {p \in OutputPaths : exists(p) /\ p.suffix = suffix}

\* redis_backup.py:121-130 prune_backups with keep = 1: every backup but the
\* newest goes, with its checksum file.  The newest is the one just written.
prune_backups(fs, suffix, newest) ==
    [p \in BackupPaths |->
        IF /\ with_name(p, "") \in collect_backups(suffix) \ {newest}
           /\ p.ext \in {"", ".sha256"}
           /\ p.suffix = suffix
        THEN Absent ELSE fs[p]]

\* The command line of backup: --output, --compress, --force, --checksum,
\* --keep, --verify, and the time of the run.
BackupArgs ==
    [output : {<<>>} \cup {<<p>> : p \in OutputPaths}, compress : BOOLEAN,
     force : BOOLEAN, checksum : BOOLEAN, keep : {0, 1}, verify : BOOLEAN, now : Stamps]

\* redis_backup.py:137-153: resolve_binary raises when redis-cli is not
\* found; the command refuses an existing target unless --force is given.
BackupStart(args, found) ==
    /\ bpc = "idle"
    /\ bruns < MaxBackups
    /\ bruns' = bruns + 1
    /\ bargs' = args
    /\ bpc' = IF ~found \/ (files[tmp_target(args)] # Absent /\ ~args.force)
              THEN "failed" ELSE "dump"
    /\ UNCHANGED <<files, backupRest>>

\* redis_backup.py:155-156, 64-87 run_redis_dump: redis-cli --rdb writes the
\* target; when it fails (check=True) the target is untouched or partly
\* written.
BackupDump ==
    /\ bpc = "dump"
    /\ \E outcome \in {"dump", "partial", "nothing"} :
          /\ files' = IF outcome = "nothing" THEN files
                      ELSE [files EXCEPT ![tmp_target(bargs)] = <<outcome>>]
          /\ bpc' = IF outcome # "dump" THEN "failed"
                    ELSE IF bargs.compress THEN "compress" ELSE "verify"
    /\ UNCHANGED <<bargs, bruns, backupRest>>

\* redis_backup.py:158-161, 90-93 compress_file: gzip.open(destination, "wb")
\* and source.unlink().
BackupCompress ==
    /\ bpc = "compress"
    /\ files' = [files EXCEPT ![output_path(bargs)] = <<gzip(files[tmp_target(bargs)][1])>>,
                              ![tmp_target(bargs)] = Absent]
    /\ bpc' = "verify"
    /\ UNCHANGED <<bargs, bruns, backupRest>>

\* redis_backup.py:165-168: with --verify, redis-check-rdb accepts the file
\* or the command fails.
BackupVerify ==
    /\ bpc = "verify"
    /\ \E ok \in BOOLEAN :
          /\ ~bargs.verify => ok
          /\ bpc' = IF ok THEN "finish" ELSE "failed"
    /\ UNCHANGED <<files, bargs, bruns, backupRest>>

\* redis_backup.py:170-184: the checksum file next to the output, then the
\* rotation, which runs only with an automatic name.
BackupFinish ==
    /\ bpc = "finish"
    /\ LET target == output_path(bargs)
           summed == IF bargs.checksum
                     THEN [files EXCEPT ![with_name(target, ".sha256")] = <<"sha256">>]
                     ELSE files
       IN  files' = IF bargs.keep # 0 /\ bargs.output = <<>>
                    THEN prune_backups(summed, target.suffix, target)
                    ELSE summed
    /\ bpc' = "done"
    /\ UNCHANGED <<bargs, bruns, backupRest>>

\* The process has exited; the next command starts afresh.
BackupExit ==
    /\ bpc \in {"done", "failed"}
    /\ bpc' = "idle"
    /\ UNCHANGED <<files, bargs, bruns, backupRest>>

NoBackupArgs ==
    [output |-> <<>>, compress |-> FALSE, force |-> FALSE, checksum |-> FALSE,
     keep |-> 0, verify |-> FALSE, now |-> "t1"]

\* No backup command has run; the backup directory is empty.
BackupInit ==
    /\ files = [p \in BackupPaths |-> Absent]
    /\ bargs = NoBackupArgs
    /\ bpc = "idle"
    /\ bruns = 0

(* ------------------------------------------------------------ initial state *)
\* A user who started the bot earlier: a record with its own topic, no
\* message yet; possibly banned by the operator since.
Started(t, banned, status) == UserData(t, FALSE, "member", banned, status, FALSE, None, FALSE)

\* User 1 is unseen, or started the bot earlier (topic 1) and may have been
\* banned or had the ticket resolved since; its topic may have been deleted
\* in the operator group meanwhile.  User 2 is unseen.
InitStore ==
    /\ \E c \in {"unseen", "started", "resolved", "banned"}, gone \in BOOLEAN :
          /\ c = "unseen" => ~gone
          /\ store = [u \in Users |->
                        IF u = 1 /\ c # "unseen" THEN Started(1, c = "banned",
                                     IF c = "resolved" THEN "resolved" ELSE "open")
                        ELSE NoRecord]
          /\ banCmd = [u \in Users |-> u = 1 /\ c = "banned"]
          /\ index = [t \in 1..(MaxThreads + 1) |->
                        IF t = 1 /\ c # "unseen" THEN {1} ELSE {}]
          /\ alive = IF c = "unseen" \/ gone THEN {} ELSE {1}
          /\ nextThread = IF c = "unseen" THEN 1 ELSE 2
    /\ deleted = 0

\* The bot: everything but the store of the users, the settings hash and
\* the backup directory.
InitBot ==
    /\ hasWatch \in BOOLEAN
    /\ ManagerInit
    /\ ThrottleInit
    /\ MigrationInit
    /\ FaqInit
    /\ UtilsInit
    /\ events = 0
    /\ pc = [p \in Procs |-> "idle"]
    /\ ret = [p \in Procs |-> "idle"]
    /\ kind = [p \in Procs |-> "none"]
    /\ user = [p \in Procs |-> None]
    /\ data = [p \in Procs |-> NoRecord]
    /\ base = [p \in Procs |-> NoRecord]
    /\ resent = [p \in Procs |-> FALSE]
    /\ attempt = [p \in Procs |-> 0]
    /\ dirty = [p \in Procs |-> FALSE]
    /\ cycles = [p \in Procs |-> 0]
    /\ writes = [p \in Procs |-> 0]
    /\ how = [p \in Procs |-> "none"]
    /\ out = [p \in Procs |-> "none"]
    /\ sawBan = [p \in Procs |-> FALSE]

\* Everything but the store of the users and the settings hash.
InitOtherTasks == InitBot /\ BackupInit

\* The settings hash holds nothing where the settings store is not used.
InitTasks ==
    /\ InitOtherTasks
    /\ SettingsInit
    /\ \A k \in SettingsKeys : settings[k] = Absent

(* -------------------------------------------------- the store specification *)
\* The handlers of the repository that write user records, running
\* concurrently against the store, for one user whose topic exists (no
\* topic is deleted, so the handlers never take their recreate branch).
StoreUsers == {1}

StoreInit == InitStore /\ InitTasks /\ (store[1] # NoRecord => 1 \in alive)

StoreNext ==
    \/ \E p \in Procs, u \in StoreUsers : UnbanUser(p, u, MaxStoreEvents)
    \/ \E p \in Procs, args \in UnbanArgs : unban_user_command(p, args, MaxStoreEvents)
    \/ \E p \in Procs, u \in StoreUsers, s \in {"member", "kicked"} :
          ChatMemberUpdate(p, u, s, MaxStoreEvents)
    \/ \E p \in Procs : ChatMemberCreate(p) \/ ChatMemberSend(p)
    \/ \E p \in Procs : update_user(p)
    \/ \E p \in Procs : Finish(p)

StoreSpec == StoreInit /\ [][StoreNext]_vars

(* -------------------------------------------------- the relay specification *)
\* Every handler that writes the record of one user, running concurrently.
\* The client is the one without watch/multi_exec (plain hset): every write
\* the optimistic path can make is a write of the caller's whole snapshot
\* too (Merge), at a moment the plain path can make it as well.  A topic is
\* deleted before the first event or not at all.  The membership update is
\* the user blocking the bot.
RelayUsers == {1}

Init == InitStore /\ InitTasks /\ ~hasWatch

Next ==
    \/ \E p \in Procs, u \in RelayUsers, b \in BOOLEAN : UserMessage(p, u, b, MaxEvents)
    \/ \E p \in Procs : UserMessageForward(p) \/ UserMessageRecreate(p)
    \/ \E p \in Procs, t \in Threads, u \in RelayUsers : OperatorMessage(p, t, u, MaxEvents)
    \/ \E p \in Procs, t \in Threads, u \in RelayUsers, q \in BOOLEAN :
          ResolveTicket(p, t, u, q, MaxEvents)
    \/ \E p \in Procs : ResolveNotice(p)
    \/ \E p \in Procs, t \in Threads, u \in RelayUsers : BanUser(p, t, u, MaxEvents)
    \/ \E p \in Procs, t \in Threads, u \in RelayUsers : ToggleSilent(p, t, u, MaxEvents)
    \/ \E p \in Procs, u \in RelayUsers : UnbanUser(p, u, MaxEvents)
    \/ \E p \in Procs, u \in RelayUsers : ChatMemberUpdate(p, u, "kicked", MaxEvents)
    \/ \E p \in Procs : handle_chat_member_update(p)
    \/ \E p \in Procs : UpdPlain(p) \/ UpdIndex(p)
    \/ \E p \in Procs : Finish(p)

Spec == Init /\ [][Next]_vars

(* ------------------------------------------------- the intake specification *)
\* Two users reach the bot for the first time or again: /start and first
\* messages, concurrently, on the client without watch/multi_exec.
Intake ==
    \/ \E p \in Procs, u \in Users, b \in BOOLEAN : UserMessage(p, u, b, MaxIntakeEvents)
    \/ \E p \in Procs : UserMessageForward(p) \/ UserMessageRecreate(p)
    \/ \E p \in Procs, u \in Users, s \in {"member", "kicked"} :
          ChatMemberUpdate(p, u, s, MaxIntakeEvents)
    \/ \E p \in Procs : handle_chat_member_update(p)
    \/ \E p \in Procs : UpdPlain(p) \/ UpdIndex(p)
    \/ \E p \in Procs : Finish(p)

IntakeSpec == Init /\ [][Intake]_vars

(* ----------------------------------------------- the recovery specification *)
\* Membership updates of one user while topics are deleted in the operator
\* group: the send of the notice can fail at any time.
Recovery ==
    \/ \E p \in Procs, u \in RelayUsers, s \in {"member", "kicked"} :
          ChatMemberUpdate(p, u, s, MaxRecoveryEvents)
    \/ \E p \in Procs : handle_chat_member_update(p)
    \/ \E t \in Threads : DeleteTopic(t)
    \/ \E p \in Procs : UpdPlain(p) \/ UpdIndex(p)
    \/ \E p \in Procs : Finish(p)

RecoverySpec == Init /\ [][Recovery]_vars

(* ----------------------------------------------- the manager specification *)
ManagerSpecInit == InitStore /\ InitTasks /\ ~hasWatch /\ store[1] = NoRecord

ManagerNext ==
    \/ \E t \in Texts, r \in BOOLEAN : Render(t, r)
    \/ send_message
    \/ \E id \in MsgIds : UserDeletesMessage(id)

ManagerSpec == ManagerSpecInit /\ [][ManagerNext]_vars

(* --------------------------------------------- the throttling specification *)
ThrottleSpecInit == InitStore /\ InitTasks /\ ~hasWatch /\ store[1] = NoRecord

ThrottleNext ==
    \/ \E u \in ThrottleUsers \cup {None}, k \in FlagKeys : ThrottledCall(u, k)
    \/ Tick

ThrottleSpec == ThrottleSpecInit /\ [][ThrottleNext]_vars

(* ---------------------------------------------- the migration specification *)
\* The hash "users" at a start of the process: per user no record, or a
\* record of any age, with its own topic (user u: topic u), which may have
\* been deleted in the operator group, or without one.
LegacyStore ==
    /\ store \in [Users -> {NoRecord} \cup
                   {StoredRecord(n, t, f) : n \in Names, t \in {None, 1, 2},
                                            f \in {"absent", "null", "true"}}]
    /\ \A u \in Users : store[u] # NoRecord => store[u].message_thread_id \in {None, u}
    /\ index = [t \in 1..(MaxThreads + 1) |->
                  {u \in Users : store[u] # NoRecord /\ store[u].message_thread_id = t}]
    /\ alive \in SUBSET {t \in 1..2 : index[t] # {}}
    /\ nextThread = 3
    /\ deleted = 0
    /\ banCmd = [u \in Users |-> FALSE]

MigrationSpecInit == LegacyStore /\ InitTasks /\ ~hasWatch

MigrationNext ==
    \/ StepStart
    \/ ensure_operator_replied_flag
    \/ sanitize_existing_display_names
    \/ StepSleep
    \/ StepReturn
    \/ start_polling
    \/ HandleUpdate
    \/ Restart

MigrationSpec == MigrationSpecInit /\ [][MigrationNext]_vars

(* ----------------------------------------------- the settings specification *)
SettingsSpecInit ==
    InitStore /\ InitOtherTasks /\ SettingsInit /\ ~hasWatch /\ store[1] = NoRecord

SettingsNext ==
    \/ \E c \in Categories, l \in Languages, t \in SettingTexts : SetValue(c, l, t)
    \/ \E c \in Categories, l \in Languages : ResetValue(c, l)
    \/ \E c \in Categories, l \in Languages : GetValue(c, l)
    \/ \E c \in Categories : GetAll(c)

SettingsSpec == SettingsSpecInit /\ [][SettingsNext]_vars

(* ---------------------------------------------------- the FAQ specifications *)
FaqSpecInit ==
    /\ InitStore /\ InitTasks /\ ~hasWatch /\ store[1] = NoRecord
    /\ \A k \in SettingsKeys : settings[k] = Absent
    /\ migrations = <<panel, security>>

FaqMethods ==
    {"add_item", "get_item", "rename_item", "update_content", "delete_item", "list_items"}

\* The ids a caller can name: those of the entries whose add_item has
\* completed, and an id no entry ever had.
KnownIds == {0} \cup {added[k] : k \in 1..Len(added)}

\* A caller in P calls a method, with the arguments the method takes.
FaqCalls(P) ==
    \E p \in P, op \in FaqMethods, id \in KnownIds, t \in Titles, c \in Contents :
        /\ op \in {"add_item", "list_items"} => id = 0
        /\ op \in {"get_item", "delete_item", "list_items", "update_content"} => t = "t1"
        /\ op \in {"get_item", "delete_item", "list_items", "rename_item"} => c = "c1"
        /\ FaqCall(p, op, id, t, c)

\* The calls of the callers in P and their steps.
FaqSteps(P) ==
    \/ FaqCalls(P)
    \/ \E p \in P : add_item(p)
    \/ \E p \in P : GetItem(p)
    \/ \E p \in P : update_item(p)
    \/ \E p \in P : delete_item(p)
    \/ \E p \in P : list_items(p)

\* Handler tasks call the store concurrently.
FaqNext == FaqSteps(FaqProcs)
FaqSpec == FaqSpecInit /\ [][FaqNext]_vars

\* One caller: every call completes before the next one starts.
FaqSeqNext == FaqSteps({1})
FaqSeqSpec == FaqSpecInit /\ [][FaqSeqNext]_vars

(* ------------------------------------------- the specification of the helpers *)
UtilsSpecInit ==
    /\ InitStore /\ InitTasks /\ ~hasWatch /\ store[1] = NoRecord
    /\ \A k \in SettingsKeys : settings[k] = Absent
    /\ migrations = <<panel, security>>

\* The helpers keep no state, so a behaviour is one call of one of them.
NoCallYet == ucall.fn = "none"
AnalyzeCalls ==
    /\ NoCallYet
    /\ \E n \in FullNames, h \in Handles, m \in MessageTexts : Analyze(n, h, m)
SanitizeCalls ==
    /\ NoCallYet
    /\ \E n \in FullNames, ph \in Placeholders : Sanitize(n, ph)
ResolveCalls ==
    /\ NoCallYet
    /\ \E v \in LanguageValues : Resolve(v)

UtilsNext == AnalyzeCalls \/ SanitizeCalls \/ ResolveCalls
UtilsSpec == UtilsSpecInit /\ [][UtilsNext]_vars

(* ----------------------------------------- the specification of the backup *)
\* The backup directory holds any of the files of an earlier backup taken
\* at t1, plain or compressed, finished or interrupted; everything else is
\* at rest.
EarlierFiles == {p \in BackupPaths : p.stamp = "t1" /\ p.ext # ".sha256"}
BackupSpecInit ==
    /\ InitStore /\ InitBot /\ ~hasWatch /\ store[1] = NoRecord
    /\ SettingsInit /\ \A k \in SettingsKeys : settings[k] = Absent
    /\ migrations = <<panel, security>>
    /\ \E present \in SUBSET EarlierFiles :
          files = [p \in BackupPaths |-> IF p \in present THEN <<"old">> ELSE Absent]
    /\ bargs = NoBackupArgs
    /\ bpc = "idle"
    /\ bruns = 0

BackupStarts == \E args \in BackupArgs, found \in BOOLEAN : BackupStart(args, found)

BackupNext ==
    \/ BackupStarts
    \/ BackupDump
    \/ BackupCompress
    \/ BackupVerify
    \/ BackupFinish
    \/ BackupExit

BackupSpec == BackupSpecInit /\ [][BackupNext]_vars

(* ================================================================ claims *)
\* The fields a finished handler changed in the record it read.
Changed(p) == {f \in DOMAIN data[p] : data[p][f] # base[p][f]}

\* Two handlers that read the same stored record of one user, changed
\* disjoint fields of it and whose update_user calls both returned without
\* falling back to the overwrite.
ConcurrentDisjointUpdates(p, q) ==
    /\ p # q
    /\ pc[p] = "done" /\ pc[q] = "done"
    /\ user[p] = user[q]
    /\ base[p] # NoRecord /\ base[p] = base[q]
    /\ how[p] = "merged" /\ how[q] = "merged"
    /\ Changed(p) # {} /\ Changed(q) # {}
    /\ Changed(p) \cap Changed(q) = {}

\* C1: when two update_user calls for the same user run concurrently and
\* change different fields, the record stored after both calls complete
\* contains both changes (neither call having exhausted its retries).
C1_BothChangesStored ==
    \A p, q \in Procs :
        ConcurrentDisjointUpdates(p, q) =>
            \A f \in Changed(p) : store[user[p]][f] = data[p][f]

\* The counters of every update_user call, and its progress.
C2_State ==
    \A p \in Procs :
        /\ cycles[p] <= 5
        /\ cycles[p] <= attempt[p] + 1
        /\ writes[p] <= 1
        /\ how[p] = "overwrite" => attempt[p] = 5 /\ cycles[p] = 5
        /\ pc[p] = "fallback" => attempt[p] = 5 /\ cycles[p] = 5 /\ writes[p] = 0
        /\ pc[p] = "idx" => writes[p] = 1 /\ how[p] # "none"
        /\ pc[p] = "idx" /\ attempt[p] = 5 => how[p] = "overwrite"
        /\ pc[p] \in {"upd", "exec", "fallback", "idx"} => ENABLED update_user(p)
        /\ kind[p] = "unban" => pc[p] # "failed"

\* The fallback writes the caller's snapshot; the return writes nothing.
C2_Step ==
    \A p \in Procs :
        /\ pc[p] = "fallback" /\ pc'[p] = "idx" => store'[user[p]] = data[p]
        /\ pc[p] = "idx" /\ pc'[p] # "idx" => pc'[p] = ret[p] /\ store' = store

\* C2: update_user starts at most 5 watch-read-merge-commit cycles, a new one
\* only after a detected conflict; after 5 conflicts it writes the caller's
\* snapshot unconditionally, exactly once; the call always comes to its end
\* with the record written once, and the handler never sees the conflict.
C2_BoundedRetryThenOverwrite == []C2_State /\ [][C2_Step]_vars

\* An update_user call that lost 5 cycles to conflicts and wrote its snapshot.
C2_Witness == \E p \in Procs : pc[p] = "idx" /\ how[p] = "overwrite"

(* ------------------------------------------------ claims on the relay core *)
\* Task p executes the hset of its update_user call in this step.
WritesRecord(p) == pc[p] \in {"upd", "exec", "fallback"} /\ pc'[p] = "idx"

\* The states of the ticket state machine, read off a stored record.
IsActive(rec) == rec # NoRecord /\ rec.message_thread_id # None /\ ~rec.is_banned
ActiveOpen(rec) == IsActive(rec) /\ rec.ticket_status = "open"
ActiveResolved(rec) == IsActive(rec) /\ rec.ticket_status = "resolved"

\* A change of a stored ticket_status is one of the two transitions, made
\* by the write of the handler that may make it.
C3_Step ==
    \A u \in Users :
        (/\ store[u] # NoRecord
         /\ store'[u] # NoRecord
         /\ store'[u].ticket_status # store[u].ticket_status)
        => \E p \in Procs :
              /\ WritesRecord(p) /\ user[p] = u
              /\ \/ /\ kind[p] = "resolve"
                    /\ store[u].ticket_status = "open"
                    /\ store'[u].ticket_status = "resolved"
                 \/ /\ kind[p] = "user_message"
                    /\ store[u].ticket_status = "resolved"
                    /\ store'[u].ticket_status = "open"

\* C3: ticket_status changes only open -> resolved, by the resolve command,
\* or resolved -> open, by a new inbound user message; no other operation
\* changes it.
C3_StatusChangedOnlyByResolveAndMessage == [][C3_Step]_vars

C6_ResolveStep(p) ==
    (WritesRecord(p) /\ kind[p] = "resolve" /\ ActiveOpen(base[p]))
    => ActiveResolved(store'[user[p]])

C6_ReopenStep(p) ==
    (WritesRecord(p) /\ kind[p] = "user_message" /\ ActiveResolved(base[p]))
    => ActiveOpen(store'[user[p]])

C6_SameThreadStep(p) ==
    (WritesRecord(p) /\ kind[p] = "user_message" /\ ActiveResolved(base[p]))
    => store'[user[p]].message_thread_id = base[p].message_thread_id

\* C6 (as claimed): the resolve command moves a user in ACTIVE_OPEN to
\* ACTIVE_RESOLVED, and the next non-blocked message of the user moves them
\* back to ACTIVE_OPEN with the same thread id.
C6_ResolveThenReopenSameThread ==
    [][\A p \in Procs : C6_ResolveStep(p) /\ C6_ReopenStep(p) /\ C6_SameThreadStep(p)]_vars

\* The thread id is kept, unless the topic was missing and recreated.
C6_ThreadStep(p) ==
    (WritesRecord(p) /\ kind[p] = "user_message" /\ ActiveResolved(base[p]))
    => IF resent[p]
       THEN /\ store'[user[p]].message_thread_id # base[p].message_thread_id
            /\ store'[user[p]].message_thread_id \in alive
            /\ base[p].message_thread_id \notin alive
       ELSE store'[user[p]].message_thread_id = base[p].message_thread_id

\* C6 (amended): the resolve command moves a user in ACTIVE_OPEN to
\* ACTIVE_RESOLVED, and the next non-blocked message of the user moves them
\* back to ACTIVE_OPEN, with the same thread id unless the transport reported
\* the thread missing: then with the id of the recreated topic.
C6_ResolveThenReopen ==
    [][\A p \in Procs : C6_ResolveStep(p) /\ C6_ReopenStep(p) /\ C6_ThreadStep(p)]_vars

\* A message that arrived for a resolved ticket has reopened it in its topic.
C6_Witness ==
    \E p \in Procs :
        /\ kind[p] = "user_message" /\ pc[p] = "idx" /\ ~resent[p]
        /\ ActiveResolved(base[p])
        /\ ActiveOpen(store[user[p]])
        /\ store[user[p]].message_thread_id = base[p].message_thread_id

\* C7: while a ban of the user is in force (from the ban command until an
\* unban) no message of an event that arrives is relayed, in either
\* direction.
C7_NoRelayWhileBanned ==
    \A p \in Procs : out[p] \in {"to_operator", "to_user"} => ~sawBan[p]

\* What silent mode holds back, and what it lets through.
C8_State ==
    \A p \in Procs :
        /\ (kind[p] = "operator_message" /\ base[p].message_silent_mode)
           => out[p] = "held"
        /\ (kind[p] = "user_message" /\ pc[p] = "idx" /\ ret[p] = "done")
           => out[p] = "to_operator"

\* The write of a silent toggle keeps is_banned; of a ban or unban, silent mode.
C8_Step ==
    \A p \in Procs :
        (WritesRecord(p) /\ store[user[p]] # NoRecord) =>
            /\ kind[p] = "silent"
               => store'[user[p]].is_banned = store[user[p]].is_banned
            /\ kind[p] \in {"ban", "unban"}
               => store'[user[p]].message_silent_mode = store[user[p]].message_silent_mode

\* C8: in silent mode operator messages are not forwarded to a non-banned
\* user while the user's messages still reach the operator; toggling silent
\* mode never changes is_banned, and ban/unban never change silent mode.
C8_SilentOnlyOperatorToUser == []C8_State /\ [][C8_Step]_vars

\* The handler of a blocked message ends at once, having informed and alerted.
C9_State ==
    \A p \in Procs :
        kind[p] = "blocked_message"
        => pc[p] = "done" /\ out[p] = "blocked" /\ how[p] = "none"

\* The step that handles a blocked message leaves every record as it is.
C9_Step ==
    \A p \in Procs :
        (kind[p] # "blocked_message" /\ kind'[p] = "blocked_message")
        => store' = store /\ out'[p] = "blocked"

\* C9: a message the analyzer blocks is not relayed and writes nothing
\* (ticket_status stays as it is); the user is informed and the operator
\* alerted.
C9_BlockedMessageNotRelayed == []C9_State /\ [][C9_Step]_vars

\* A blocked message of a user whose ticket is resolved: still resolved.
C9_Witness ==
    \E p \in Procs :
        /\ kind[p] = "blocked_message" /\ out[p] = "blocked"
        /\ store[user[p]] # NoRecord
        /\ store[user[p]].ticket_status = "resolved"

\* The record as the write of a relayed message leaves it.
C10_Step ==
    \A p \in Procs :
        WritesRecord(p) =>
            /\ (kind[p] = "user_message" /\ out[p] = "to_operator")
               => /\ store'[user[p]].awaiting_reply
                  /\ ~store'[user[p]].operator_replied
                  /\ store'[user[p]].last_user_message_at # None
                  /\ store'[user[p]].last_user_message_at <= events
                  /\ base[p] # NoRecord =>
                        store'[user[p]].last_user_message_at > base[p].last_user_message_at
            /\ kind[p] = "operator_message"
               => /\ out[p] \in {"to_user", "held"}
                  /\ ~store'[user[p]].awaiting_reply
                  /\ store'[user[p]].operator_replied

\* C10: the write of a relayed user message leaves awaiting_reply = true,
\* operator_replied = false and a stamp in last_user_message_at; the write
\* of an operator message leaves awaiting_reply = false and
\* operator_replied = true, forwarded or held back.
C10_RelayFlags == [][C10_Step]_vars

\* An operator message held back by silent mode has been recorded as a reply.
C10_Witness ==
    \E p \in Procs :
        /\ kind[p] = "operator_message" /\ pc[p] = "idx" /\ out[p] = "held"
        /\ base[p].message_silent_mode /\ base[p].awaiting_reply
        /\ ~store[user[p]].awaiting_reply /\ store[user[p]].operator_replied
(* ------------------------------------------------------- claims on intake *)
\* State NEW of the ticket state machine: no record, or a record without a
\* thread.
IsNew(rec) == rec = NoRecord \/ rec.message_thread_id = None

\* The thread ids other users' records hold.
ThreadsOfOthers(u) ==
    {store[v].message_thread_id : v \in {w \in Users \ {u} : store[w] # NoRecord}}

\* The handler run by task p made and stored a record with an open ticket.
OpenedTicket(p) ==
    /\ data[p] # NoRecord
    /\ data[p].message_thread_id # None
    /\ data[p].message_thread_id < nextThread
    /\ data[p].ticket_status = "open"
    /\ how[p] # "none"

\* The handler of a message of a NEW user stores the record it made.
C5_WriteStep(p) ==
    (WritesRecord(p) /\ kind[p] = "user_message" /\ IsNew(base[p]))
    => /\ store'[user[p]] = data[p]
       /\ data[p].message_thread_id # None
       /\ data[p].message_thread_id \notin ThreadsOfOthers(user[p])
       /\ data[p].ticket_status = "open"
       /\ ~data[p].is_banned

\* No two users' records hold the same thread id.
C5_FreshThreads ==
    \A u, v \in Users :
        (u # v /\ store[u] # NoRecord /\ store[v] # NoRecord
         /\ store[u].message_thread_id # None)
        => store[u].message_thread_id # store[v].message_thread_id

\* C5 (as claimed): the first inbound message of a user in state NEW, any
\* message, has moved the user to ACTIVE_OPEN when its handler is done: a
\* thread was created and persisted with ticket_status open.
C5_AnyFirstMessageOpensTicket ==
    \A p \in Procs :
        (kind[p] \in {"user_message", "blocked_message"} /\ pc[p] = "done"
         /\ IsNew(base[p]))
        => OpenedTicket(p)

\* Thread ids are fresh, and a passed first message has opened a ticket.
C5_State ==
    /\ C5_FreshThreads
    /\ \A p \in Procs :
        (kind[p] = "user_message" /\ pc[p] = "done" /\ IsNew(base[p]))
        => OpenedTicket(p)

\* C5 (amended): the first inbound message of a user in state NEW that the
\* security analyzer does not block moves the user to ACTIVE_OPEN: a thread
\* is created, its id is fresh (no other user's record holds it) and it is
\* persisted in the user's record with ticket_status open.
C5_FirstPassedMessageOpensTicket ==
    []C5_State /\ [][\A p \in Procs : C5_WriteStep(p)]_vars

\* The first message of unseen user 2 has been stored with a new thread,
\* while user 1 holds thread 1.
C5_Witness ==
    \E p \in Procs :
        /\ kind[p] = "user_message" /\ pc[p] = "idx" /\ ret[p] = "um_send"
        /\ user[p] = 2 /\ base[p] = NoRecord
        /\ store[1] # NoRecord /\ store[1].message_thread_id = 1
        /\ store[2] = data[p]
        /\ store[2].message_thread_id = 2
        /\ store[2].ticket_status = "open"
(* ----------------------------------------------------- claims on recovery *)
\* Task p, handling a membership update, replaces the thread id it holds.
ReplacesThread(p) ==
    /\ kind[p] = "chat_member" /\ kind'[p] = "chat_member"
    /\ data[p].message_thread_id # None
    /\ data'[p].message_thread_id # data[p].message_thread_id

\* One recovery per handler: a thread is replaced only after a failed send,
\* once, by a topic created in that step; the new id is stored before the
\* send is repeated; the repeated send ends the handler either way.
C11_Step ==
    \A p \in Procs :
        /\ ReplacesThread(p)
           => /\ ~resent[p] /\ resent'[p]
              /\ data[p].message_thread_id \notin alive
              /\ data'[p].message_thread_id = nextThread
              /\ nextThread' = nextThread + 1
              /\ data'[p].message_thread_id \in alive'
              /\ pc'[p] = "upd" /\ ret'[p] = "cm_resend"
        /\ (resent[p] /\ pc'[p] # "idle") => resent'[p]
        /\ (WritesRecord(p) /\ ret[p] = "cm_resend")
           => store'[user[p]].message_thread_id = data[p].message_thread_id
        /\ (pc[p] = "cm_resend" /\ pc'[p] # "cm_resend")
           => /\ nextThread' = nextThread /\ store' = store /\ data' = data
              /\ \/ /\ pc'[p] = "done" /\ out'[p] = "notice"
                    /\ data[p].message_thread_id \in alive
                 \/ /\ pc'[p] = "failed" /\ out'[p] = out[p]
                    /\ data[p].message_thread_id \notin alive
        /\ pc[p] = "failed"
           => /\ pc'[p] \in {"failed", "idle"}
              /\ pc'[p] = "failed" => data'[p] = data[p] /\ out'[p] = out[p]

\* A failure is propagated only by a handler that recreated the thread,
\* stored it and repeated the send.
C11_State ==
    \A p \in Procs :
        /\ pc[p] = "failed" => resent[p] /\ writes[p] = 1 /\ ret[p] = "cm_resend"
        /\ pc[p] = "cm_resend" => resent[p] /\ writes[p] = 1

\* C11: when the send to the user's operator thread fails because the thread
\* no longer exists, the handler creates a new thread exactly once, persists
\* its id in the user's record and repeats the send exactly once; if that
\* send fails too, the failure is propagated, with no further recreation or
\* retry.
C11_RecreateOnceRetryOnce == []C11_State /\ [][C11_Step]_vars

\* The repeated send failed as well, after the new thread id was stored.
C11_Witness ==
    \E p \in Procs :
        /\ pc[p] = "failed" /\ resent[p]
        /\ data[p].message_thread_id # base[p].message_thread_id
        /\ store[user[p]].message_thread_id = data[p].message_thread_id
        /\ data[p].message_thread_id \notin alive
(* ------------------------------------------- claims on thread assignment *)
\* The thread ids that were stored for user u: _update_index files the user
\* under every thread id written to the record, and removes none.
ThreadsOf(u) == {t \in DOMAIN index : u \in index[t]}

\* C12: a user is assigned a thread id at most once while none of the
\* user's threads is missing, whatever the order and interleaving of the
\* user's events, two events handled while the record has no thread id
\* included.
C12_AtMostOneThread ==
    \A u \in Users :
        (\A t \in ThreadsOf(u) : t \in alive) => Cardinality(ThreadsOf(u)) <= 1
(* -------------------------------------------- claims on Manager.send_message *)
\* The last transport call of the running send_message call.
LastCall == mlog[Len(mlog)]

\* C13: when send_message has returned without raising, the tracked message
\* id refers to a message that exists in the chat and shows the text passed
\* to the call.
C13_TrackedIsLiveLatest ==
    mpc = "returned" => tracked \in MsgIds /\ chat[tracked] = mtext

\* A call that found its previous message deleted by the user and replaced it.
C13_Witness ==
    /\ mpc = "returned" /\ Len(mlog) >= 3
    /\ mlog[1] = <<"edit", "edit_not_found">>
    /\ LastCall = <<"send", "ok">>
    /\ tracked # mprev /\ chat[tracked] = mtext /\ chat[mprev] = "gone"

\* C14: a failed delete of the previous message that means the message is
\* already gone does not end the call, and a failed delete of any other kind
\* ends it with the failure raised to the caller.
C14_DeleteFailureSurfaced ==
    \A i \in 1..Len(mlog) :
        mlog[i][1] = "delete" =>
            /\ mlog[i][2] \in {"delete_not_found", "cant_delete"}
               => ~(i = Len(mlog) /\ mpc = "raised")
            /\ mlog[i][2] \in {"other", "down"}
               => i = Len(mlog) /\ mpc = "raised"

\* C15: with replace_previous false and a previous message id, the call
\* first edits in place; if the edit succeeds nothing is sent and the tracked
\* id stays; if it fails as not editable the call goes on to delete the
\* previous message and to send a new one, whose id becomes the tracked id.
C15_EditThenFallback ==
    (mpc # "idle" /\ ~mreplace /\ mprev # None) =>
        /\ mlog = <<>> <=> mpc = "edit"
        /\ mlog # <<>> =>
            /\ mlog[1][1] = "edit"
            /\ mlog[1][2] = "ok"
               => /\ mpc = "returned" /\ Len(mlog) = 1
                  /\ tracked = mprev /\ chat[mprev] = mtext
            /\ mlog[1][2] \in {"cant_edit", "not_modified", "edit_not_found"}
               => /\ Len(mlog) = 1 => mpc = "delete"
                  /\ Len(mlog) >= 2 => mlog[2][1] = "delete"
                  /\ mpc = "returned"
                     => /\ LastCall = <<"send", "ok">>
                        /\ tracked = nextMsg - 1 /\ tracked # mprev
                        /\ chat[tracked] = mtext

\* The text was the one already shown: the message was replaced by a new one.
C15_Witness ==
    /\ mpc = "returned" /\ ~mreplace /\ mprev # None
    /\ mlog[1] = <<"edit", "not_modified">>
    /\ mlog[2] = <<"delete", "ok">>
    /\ LastCall = <<"send", "ok">> /\ tracked = nextMsg - 1

\* C16: with replace_previous true the call never edits the previous message
\* to the new text: it first tries to delete the tracked previous message,
\* if there is one, then sends a new message, whose id becomes the tracked id.
C16_DeleteThenSend ==
    (mpc # "idle" /\ mreplace) =>
        /\ \A i \in 1..Len(mlog) : mlog[i][1] # "edit"
        /\ mprev # None
           => /\ mlog = <<>> <=> mpc = "delete"
              /\ mlog # <<>> => mlog[1][1] = "delete"
        /\ mprev = None => \A i \in 1..Len(mlog) : mlog[i][1] = "send"
        /\ mpc = "returned"
           => /\ LastCall = <<"send", "ok">>
              /\ tracked = nextMsg - 1 /\ tracked # mprev
              /\ chat[tracked] = mtext

\* The previous message could not be deleted and shows the placeholder; the
\* new message is tracked.
C16_Witness ==
    /\ mpc = "returned" /\ mreplace /\ mprev # None
    /\ mlog[1] = <<"delete", "cant_delete">>
    /\ mlog[2] = <<"placeholder", "ok">>
    /\ chat[mprev] = emoji
    /\ LastCall = <<"send", "ok">> /\ tracked = nextMsg - 1

(* ------------------------------------------------- claims on throttling *)
\* An event of u under k arrives inside the window opened by the latest
\* event of u that was passed to the handler under k.
InWindow(u, k) ==
    /\ u \in ThrottleUsers /\ k \in ThrottleKeys
    /\ accepted[u][k] >= 0
    /\ clock < accepted[u][k] + ttl_map[k]

\* The step handles an event, and drops it: the handler is not invoked and
\* the middleware returns None.
EventStep == arrived' = arrived + 1
Dropped == last'.result = "none" /\ invoked' = invoked

\* Handlers are invoked only for the event that is arriving: nothing is
\* queued or retried.
NoLateInvocation ==
    /\ invoked' \in {invoked, invoked + 1}
    /\ invoked' = invoked + 1 => EventStep /\ last'.result = "handled"

\* C17 as stated: once an event of user U under key K was passed to its
\* handler, every further event of U under K arriving within K's window of
\* that event is dropped (handler not invoked, None returned), and no event
\* is queued or retried.
C17_Step ==
    /\ NoLateInvocation
    /\ EventStep /\ InWindow(last'.user, last'.key) => Dropped

C17_DroppedWithinWindow == [][C17_Step]_vars

\* C17 amended: the same, as long as fewer than maxsize events of other
\* users were passed to the handler under K since that accepted event (the
\* cache of K holds maxsize entries and gives up its oldest one when full).
C17_StepWithRoom ==
    /\ NoLateInvocation
    /\ (EventStep /\ InWindow(last'.user, last'.key)
          /\ since[last'.user][last'.key] < maxsize) => Dropped

C17_DroppedWithinWindowWhileCached == [][C17_StepWithRoom]_vars

\* An event was dropped at a later tick than the accepted one, still inside
\* the window, after events of other users went through under the same key.
C17_Witness ==
    /\ last.result = "none"
    /\ last.key = "slow"
    /\ last.user \in ThrottleUsers
    /\ accepted[last.user]["slow"] >= 0
    /\ clock > accepted[last.user]["slow"]
    /\ since[last.user]["slow"] > 0
    /\ invoked < arrived

(* ------------------------------------- claims on startup and migrations *)
\* The steps declared before position i, in declaration order.
DeclaredBefore(i) == SubSeq(migrations, 1, i - 1)

\* C18, in every state: the steps completed since the start are the
\* declared ones before the current position, in declaration order, each
\* once; a step runs only when all earlier ones have completed; updates are
\* received only after all steps have completed; after a raise no update
\* has been handled.
C18_State ==
    /\ ran = DeclaredBefore(stepNo)
    /\ boot = "polling" => ran = migrations /\ spc = "idle"
    /\ polled > 0 => boot = "polling"
    /\ boot = "aborted" => spc = "raised" /\ polled = 0 /\ stepNo <= Len(migrations)

\* C18, in every step: a step completes before the next one starts, and
\* once a step has raised, the process runs no step and handles no update
\* (until the process is started anew).
C18_Step ==
    /\ ran' # ran /\ startups' = startups =>
          spc = "done" /\ spc' = "idle" /\ ran' = Append(ran, migrations[stepNo])
    /\ boot = "aborted" /\ startups' = startups =>
          boot' = "aborted" /\ ran' = ran /\ spc' = spc /\ polled' = 0
             /\ store' = store /\ topicName' = topicName

\* C18: all migration steps run once at startup in declaration order, each
\* completing before the next starts and all before the bot receives
\* updates; if a step raises, startup is aborted, no later step runs and no
\* update is handled.
C18_MigrationsBeforePolling == []C18_State /\ [][C18_Step]_vars

\* Updates are handled after both steps ran to completion, on the second
\* start of the process, and the steps have changed a record.
C18_Witness ==
    /\ polled > 0
    /\ startups = 2
    /\ ran = migrations
    /\ \E u \in Users : store[u] # NoRecord /\ store[u].full_name = Placeholder(u)

\* C19: a migration step that runs on the store a previous run of the same
\* step produced (the empty store included) leaves every user record, and
\* the thread index, exactly as they were.
C19_Step == fresh /\ boot = "migrating" /\ spc # "idle" => store' = store /\ index' = index

C19_StepsIdempotent == [][C19_Step]_vars

\* A step has finished a run on the store its own earlier run produced,
\* and that store holds a record the steps have changed.
C19_Witness ==
    /\ fresh /\ spc = "done" /\ Step = security
    /\ produced[panel] # <<>>
    /\ \E u \in Users : /\ store[u] # NoRecord
                          /\ store[u].full_name = Placeholder(u)
                          /\ "operator_replied" \in DOMAIN store[u]
                          /\ store[u].operator_replied = "false"

\* C20: while a step scans two or more records it pauses before it has
\* processed all of them: the records processed since the latest pause never
\* amount to the whole scan, whatever the records hold.
C20_PauseWithinScan ==
    boot = "migrating" /\ spc # "idle" /\ Len(ids) >= 2 => sincePause < Len(ids)

(* ------------------------------------------- claims on the settings store *)
\* The latest call and the one made now are calls on the same category and
\* language.
SameSlot == slast'.category = slast.category /\ slast'.language = slast.language

\* C21: in each category, for every language and text, set(lang, text)
\* followed by get(lang) returns text, also when an override for that
\* language existed before (the last set wins).
C21_Step ==
    slast.op = "set" /\ slast'.op = "get" /\ SameSlot => slast'.value = <<slast.text>>

C21_SetThenGet == [][C21_Step]_vars

\* A get has returned the text of a set that replaced an earlier override
\* of another text.
C21_Witness ==
    /\ slast.op = "get"
    /\ slast.value = <<"">>
    /\ slast.category = "resolved_message"
    /\ <<slast.category, slast.language>> \in wasSet
    /\ settings[KeyOf(GREETING_PREFIX, slast.language)] = <<"a">>

\* What a get of each language of category c would return.
GetsOf(h, c) == [l \in Languages |-> get_prefixed_value(h, PrefixOf(c), l)]

\* C22: in each category, reset(lang) followed by get(lang) returns absent
\* whether or not an override existed; get of a language never set returns
\* absent; a reset leaves the overrides of the other languages of the
\* category unchanged.
C22_Step ==
    /\ slast.op = "reset" /\ slast'.op = "get" /\ SameSlot => slast'.value = Absent
    /\ slast'.op = "get" /\ <<slast'.category, slast'.language>> \notin wasSet =>
          slast'.value = Absent
    /\ slast'.op = "reset" /\ slast' # slast =>
          \A l \in Languages \ {slast'.language} :
              GetsOf(settings', slast'.category)[l] = GetsOf(settings, slast'.category)[l]

C22_ResetThenGet == [][C22_Step]_vars

\* A get has returned absent right after the reset of an override, while
\* the other language of the category keeps its override.
C22_Witness ==
    /\ slast.op = "get"
    /\ slast.value = Absent
    /\ <<slast.category, slast.language>> \in wasSet
    /\ \E l \in Languages \ {slast.language} :
          get_prefixed_value(settings, PrefixOf(slast.category), l) = <<"a">>

\* C23, in every step: a listing returns exactly the (language, text) pairs
\* set and not reset in its category, and a set or reset in one category
\* changes neither the gets nor the listing of the other.
C23_Step ==
    /\ slast'.op = "get_all" => slast'.listing = overrides[slast'.category]
    /\ slast'.op \in {"set", "reset"} =>
          \A c \in Categories \ {slast'.category} :
              /\ GetsOf(settings', c) = GetsOf(settings, c)
              /\ collect_prefixed(settings', PrefixOf(c)) =
                     collect_prefixed(settings, PrefixOf(c))

\* C23: the two categories are isolated from each other and from the
\* unrelated fields of the hash.
C23_CategoriesIsolated == [][C23_Step]_vars

\* A listing of one category has returned its only override while the hash
\* holds an override of the other category and an unrelated field.
C23_Witness ==
    /\ slast.op = "get_all"
    /\ slast.category = "greeting"
    /\ slast.listing = {<<(<<"r", ":">>), "a">>}
    /\ overrides["resolved_message"] # {}
    /\ \E k \in UnrelatedKeys : settings[k] # Absent

(* ------------------------------------------------ claims on the FAQ store *)
\* Caller p returns from method op in this step.
Returns(p, op) == fpc[p] # "idle" /\ fpc'[p] = "idle" /\ fop[p] = op

\* The ids of a list of items.
IdsOf(list) == [k \in 1..Len(list) |-> list[k].id]

\* C24: after sequential add_item calls, list_items returns exactly the
\* items added (and not deleted), as stored, in the order they were added.
C24_Step ==
    Returns(1, "list_items") =>
        /\ IdsOf(fres'[1]) = SelectSeq(added, LAMBDA i : i \notin removed)
        /\ \A k \in 1..Len(fres'[1]) : to_json(fres'[1][k]) = items[fres'[1][k].id]

C24_ListInInsertionOrder == [][C24_Step]_vars

\* list_items has returned the two items added, in the order of their adds.
C24_Witness ==
    /\ fop[1] = "list_items" /\ fpc[1] = "idle"
    /\ Len(fres[1]) = 2
    /\ IdsOf(fres[1]) = <<1, 2>>
    /\ added = <<1, 2>>

\* C25: when delete_item(id) completes, id has no entry in the entry hash
\* and is not in the order list, and the other ids keep their relative order
\* in the list.
C25_Step ==
    \A p \in FaqProcs :
        Returns(p, "delete_item") =>
            /\ items'[farg[p].id] = Absent
            /\ \A k \in 1..Len(order') : order'[k] # farg[p].id
            /\ order' = SelectSeq(order, LAMBDA e : e # farg[p].id)

C25_DeletedIsGone == [][C25_Step]_vars

\* No FAQStorage call is running.
FaqQuiet == \A p \in FaqProcs : fpc[p] = "idle"

\* C26: whenever all calls have completed, an id is in the order list if
\* and only if it has an entry in the entry hash, and it occurs in the order
\* list at most once.
C26_OrderMatchesEntries ==
    FaqQuiet =>
        /\ \A i \in ItemKeys : (items[i] # Absent) <=> (\E k \in 1..Len(order) : order[k] = i)
        /\ \A k, m \in 1..Len(order) : order[k] = order[m] => k = m

(* --------------------------------------------- claims on the pure helpers *)
Analyzed == ucall.fn = "analyze_user_message"
Sanitized == ucall.fn = "sanitize_display_name"
Resolved == ucall.fn = "resolve_language_code"

\* The checks that matched in the analyzed call, and those of them the
\* severity table rates high.
MatchedChecks == matches(ucall.full_name, ucall.username, ucall.message_text)
HighChecks == {c \in MatchedChecks : severity[c] = "high"}

\* C27: analyze reports triggered exactly when at least one pattern check
\* matched, of any severity and a generic URL in the message included, and
\* should_block exactly when at least one high-risk check matched; so
\* should_block implies triggered, a message with an invite link is blocked
\* with a reason that references the link, exactly one medium signal gives
\* triggered without should_block, and no signal gives triggered = false.
C27_TriggeredIffAnyMatch ==
    Analyzed =>
        /\ ucall.result.triggered <=> MatchedChecks # {}
        /\ ucall.result.should_block <=> HighChecks # {}
        /\ ucall.result.should_block => ucall.result.triggered
        /\ Has(ucall.message_text, "invite") =>
               ucall.result.should_block /\ invite_link \in ucall.result.high
        /\ (Cardinality(MatchedChecks) = 1 /\ HighChecks = {}) =>
               ucall.result.triggered /\ ~ucall.result.should_block
        /\ MatchedChecks = {} => ~ucall.result.triggered

\* Stripping the name leaves no content: every token of it is matched.
NothingLeft(name) == \A i \in 1..Len(name) : Matched(name[i])
\* No pattern of the analyzer matches the text as a display name.
Clean(text) == matches(text, <<>>, <<>>) = {}

\* C28 as stated: for every name and placeholder the sanitized name holds
\* nothing a pattern of the analyzer matches, sanitizing it again changes
\* nothing, and it is exactly the placeholder when stripping leaves no content.
C28_SanitizedIsClean ==
    Sanitized =>
        /\ Clean(ucall.result)
        /\ sanitize_display_name(ucall.result, ucall.placeholder) = ucall.result
        /\ NothingLeft(ucall.name) => ucall.result = ucall.placeholder

\* C28, amended: whenever the placeholder holds nothing a pattern of the
\* analyzer matches, neither does the sanitized name, and sanitizing it again
\* changes nothing; for every name and placeholder, the result is exactly
\* the placeholder when stripping leaves no content.
C28_SanitizedIsCleanGivenCleanPlaceholder ==
    Sanitized =>
        /\ Clean(ucall.placeholder) =>
               /\ Clean(ucall.result)
               /\ sanitize_display_name(ucall.result, ucall.placeholder) = ucall.result
        /\ NothingLeft(ucall.name) => ucall.result = ucall.placeholder

\* A name of two matched tokens was sanitized with a clean placeholder,
\* which is what the call returned.
C28_Witness ==
    /\ Sanitized
    /\ Clean(ucall.placeholder)
    /\ Cardinality({i \in 1..Len(ucall.name) : Matched(ucall.name[i])}) = 2
    /\ ucall.result = ucall.placeholder

\* C29: resolve_language_code returns a supported code for every value,
\* None included, and the value itself when it is a supported code.
C29_ResolvesToSupported ==
    Resolved =>
        /\ ucall.result \in Supported
        /\ (ucall.value # <<>> /\ ucall.value[1] \in Supported) =>
               ucall.result = ucall.value[1]

\* An unsupported code was resolved.
C29_Witness ==
    /\ Resolved
    /\ ucall.value # <<>>
    /\ ucall.value[1] \notin Supported
    /\ ucall.result = "ru"

(* ------------------------------------------- claims on the thread index *)
\* Task p returns from update_user in this step, having written a record
\* with thread id t.
ReturnsWith(p, t) ==
    /\ pc[p] = "idx" /\ pc'[p] # "idx"
    /\ t # None
    /\ data[p].message_thread_id = t

\* After the step, the thread id t resolves to the current record of user u.
ResolvesTo(t, u) ==
    /\ store'[u] # NoRecord
    /\ get_by_message_thread_id(t)' = {store'[u]}

C30_Step ==
    /\ \A p \in Procs, t \in DOMAIN index :
          (ReturnsWith(p, t) /\ index'[t] \subseteq {user[p]}) => ResolvesTo(t, user[p])
    /\ \A t \in DOMAIN index, u \in Users :
          (index[t] = {u} /\ index'[t] \subseteq {u}) => ResolvesTo(t, u)
    /\ \A t \in DOMAIN index :
          (index[t] = {} /\ ~\E p \in Procs : ReturnsWith(p, t)) =>
              get_by_message_thread_id(t)' = {NoRecord}

\* C30: when update_user of user u with a thread id t returns, and from then
\* on as long as no other user is filed under t, get_by_message_thread_id(t)
\* returns the record stored for u at that moment; a thread id resolves to
\* None until an update_user with that thread id returns.
C30_ThreadResolvesToItsUser == [][C30_Step]_vars

\* The topic of user 1 was recreated as topic 2, which no record had at the
\* start: the update_user that stored it has returned and topic 2 resolves
\* to the record of user 1, while a thread id never written resolves to None.
C30_Witness ==
    /\ index[2] = {1}
    /\ store[1] # NoRecord
    /\ store[1].message_thread_id = 2
    /\ get_by_message_thread_id(2) = {store[1]}
    /\ get_by_message_thread_id(3) = {NoRecord}

(* ----------------------------------------- claims on the life of a record *)
\* C31: a stored user record is never removed: once the hash holds a record
\* for a user id, it holds one in every later state, whatever handler writes
\* (ban, unban, resolve, membership change); the write of a ban leaves the
\* record in place with is_banned set, and is_banned is the only field the
\* ban handler changed in the record it read.
C31_Step ==
    /\ \A u \in Users : get_user(u) # NoRecord => get_user(u)' # NoRecord
    /\ \A p \in Procs :
          (kind[p] = "ban" /\ WritesRecord(p)) =>
              /\ get_user(user[p])' # NoRecord
              /\ get_user(user[p])'.is_banned
              /\ Changed(p) \subseteq {"is_banned"}

C31_RecordsNeverDeleted == [][C31_Step]_vars

\* A ban was written and the handler is done: the record of the user is
\* there, banned, with its thread.
C31_Witness ==
    \E p \in Procs :
        /\ kind[p] = "ban" /\ pc[p] = "done"
        /\ get_user(user[p]) # NoRecord
        /\ get_user(user[p]).is_banned
        /\ get_user(user[p]).message_thread_id # None

\* C32: the write of an unban (callback or /unban command) changes is_banned
\* to false and nothing else: the stored record after it is the stored
\* record before it with is_banned false, so a ban followed by an unban
\* leaves the record as it was before the ban.
C32_Step ==
    \A p \in Procs :
        (kind[p] = "unban" /\ WritesRecord(p)) =>
            get_user(user[p])' = [get_user(user[p]) EXCEPT !.is_banned = FALSE]

C32_UnbanChangesOnlyFlag == [][C32_Step]_vars

(* ------------------------------------ claims on failures of send_message *)
\* The edit of the running call failed with an error that is none of the
\* "not editable" kinds: another TelegramBadRequest, or an exception of
\* another class.
EditFailedOtherwise ==
    /\ Len(mlog) >= 1
    /\ mlog[1][1] = "edit"
    /\ mlog[1][2] \notin {"ok", "cant_edit", "not_modified", "edit_not_found"}

C33_State ==
    (mpc # "idle" /\ EditFailedOtherwise) =>
        /\ mpc = "raised"
        /\ mlog = <<mlog[1]>>
        /\ tracked = mprev

C33_Step ==
    (mpc = "edit" /\ EditFailedOtherwise') =>
        /\ mpc' = "raised"
        /\ chat' = chat /\ tracked' = tracked /\ nextMsg' = nextMsg

\* C33: when the in-place edit fails with an error that is not one of the
\* "not editable" kinds, send_message raises it: the call makes no delete
\* and no send (the edit is its only transport call), the chat is as it
\* was, and the tracked message id is the one the call found.
C33_EditFailurePropagated == []C33_State /\ [][C33_Step]_vars

\* A call whose edit failed with a TelegramBadRequest of another kind.
C33_Witness ==
    /\ mpc = "raised"
    /\ mlog = <<(<<"edit", "other">>)>>
    /\ tracked = mprev /\ tracked # None

(* ------------------------------------ claims on what the migrations write *)
\* The stored record of user u is already as step s leaves records: its
\* operator_replied is true or false, or its name is its own sanitized name.
AlreadyMigrated(s, u) ==
    IF s = panel
    THEN /\ "operator_replied" \in DOMAIN store[u]
         /\ store[u].operator_replied \in {"true", "false"}
    ELSE sanitize_display_name(store[u].full_name, Placeholder(u)) = store[u].full_name

\* The running step calls update_user in this step.
StepWrites == boot = "migrating" /\ spc = "write" /\ spc' # "write"

C34_Step ==
    /\ StepWrites =>
          /\ ~AlreadyMigrated(Step, ids[cur])
          /\ \A u \in Users \ {ids[cur]} : store'[u] = store[u]
    /\ (boot = "migrating" /\ ~StepWrites) => store' = store

\* C34: a migration step calls update_user only for a record that is not yet
\* as the step leaves records; a record that is already migrated is read
\* and never written, and the steps write nothing else, so what any other
\* writer stored in such a record stays.
C34_OnlyUnmigratedWritten == [][C34_Step]_vars

\* The panel step is through: it wrote the null flag of user 2 and left the
\* record of user 1, whose flag was true, alone.
C34_Witness ==
    /\ Running(panel) /\ spc = "done"
    /\ store[1] # NoRecord /\ "operator_replied" \in DOMAIN store[1]
    /\ store[1].operator_replied = "true"
    /\ store[2] # NoRecord /\ "operator_replied" \in DOMAIN store[2]
    /\ store[2].operator_replied = "false"

(* ------------------------------------- claims on the scope of the debounce *)
\* C35: the debounce is per user and per handler key: an event is dropped
\* only if an event of the same user under the same key was passed to the
\* handler before; what was accepted for another user, or for the same user
\* under another key, drops nothing, an event without a sender is never
\* dropped, and neither is an event under a key that has no cache.
C35_Step ==
    (EventStep /\ Dropped) =>
        /\ last'.user \in ThrottleUsers
        /\ last'.key \in ThrottleKeys
        /\ accepted[last'.user][last'.key] >= 0

C35_DebouncePerUserAndKey == [][C35_Step]_vars

\* User 1 was accepted under both keys and user 2 under "slow" and at the
\* same tick an event of user 2 under "default" went through.
C35_Witness ==
    /\ clock = 0
    /\ accepted[1]["default"] = 0 /\ accepted[1]["slow"] = 0
    /\ accepted[2]["slow"] = 0
    /\ last = [user |-> 2, key |-> "default", result |-> "handled"]
    /\ accepted[2]["default"] = 0

\* C36: a dropped event neither restarts nor extends the window: an event
\* of user U under key K that arrives when the window of the latest accepted
\* event of U under K has elapsed is passed to its handler, whatever was
\* dropped in between.
C36_Step ==
    (/\ EventStep
     /\ last'.user \in ThrottleUsers /\ last'.key \in ThrottleKeys
     /\ accepted[last'.user][last'.key] >= 0
     /\ clock >= accepted[last'.user][last'.key] + ttl_map[last'.key]) =>
        /\ last'.result = "handled"
        /\ invoked' = invoked + 1

C36_HandledAfterWindow == [][C36_Step]_vars

\* Three events of one user under the key "default" and no others: the first
\* accepted at tick 0, the second dropped, the third accepted at tick 1,
\* when the window of the first had elapsed.
C36_Witness ==
    /\ arrived = 3 /\ invoked = 2 /\ clock = 1
    /\ last.user \in ThrottleUsers
    /\ last.key = "default" /\ last.result = "handled"
    /\ accepted[last.user]["default"] = 1
    /\ accepted[last.user]["slow"] = -1
    /\ \A v \in ThrottleUsers \ {last.user}, k \in ThrottleKeys : accepted[v][k] = -1

(* ------------------------------------ claims on the index and the records *)
\* C37: every user id filed under a thread in the index has a stored
\* record: update_user files the user only after it has written the record,
\* on the plain path, after a committed transaction and after the overwrite
\* that follows the conflicts; while it is about to file the user the record
\* is written already, and a lookup by thread never ends at a user id
\* without a record.
C37_IndexedUsersHaveRecords ==
    /\ \A t \in DOMAIN index : \A u \in index[t] : get_user(u) # NoRecord
    /\ \A t \in DOMAIN index : NoRecord \notin get_by_message_thread_id(t) \/ index[t] = {}
    /\ \A p \in Procs : pc[p] = "idx" => get_user(user[p]) # NoRecord /\ writes[p] = 1

\* A user without a record at the start has one and is filed under its thread,
\* by an update_user that committed its transaction.
C37_Witness ==
    \E p \in Procs :
        /\ pc[p] = "done" /\ how[p] = "merged"
        /\ base[p] = NoRecord
        /\ data[p].message_thread_id # None
        /\ user[p] \in index[data[p].message_thread_id]
        /\ get_user(user[p]) # NoRecord

(* ----------------------------------------- claims on refused unban requests *)
\* The unban request task p handles names no user (the /unban command had no
\* argument, too many, or one that is no number), a user without a record,
\* or a user who is not banned.
Refused(p) ==
    /\ kind[p] = "unban"
    /\ (user[p] = None \/ base[p] = NoRecord \/ ~base[p].is_banned)

C38_State ==
    \A p \in Procs : Refused(p) => pc[p] = "done" /\ writes[p] = 0 /\ how[p] = "none"

C38_Step ==
    \A p \in Procs :
        /\ (~Refused(p) /\ Refused(p)') => store' = store /\ index' = index
        /\ Refused(p) => ~WritesRecord(p)
        /\ (Refused(p) /\ (store' # store \/ index' # index)) =>
               \E q \in Procs \ {p} : pc[q] \in {"upd", "exec", "fallback", "idx"}

\* C38: an unban request, by button or by /unban, for a user id without a
\* record or for a user who is not banned, and a /unban whose argument is
\* missing or no number, writes nothing: the handler returns without calling
\* update_user, and records and index are as they were.
C38_RefusedUnbanWritesNothing == []C38_State /\ [][C38_Step]_vars

\* Both tasks have refused a request: one a /unban without a usable
\* argument, the other a request for a user who has no record.
C38_Witness ==
    /\ kind[1] = "unban" /\ pc[1] = "done" /\ user[1] = None
    /\ kind[2] = "unban" /\ pc[2] = "done" /\ user[2] # None /\ base[2] = NoRecord

(* ------------------------------------- claims on rename and content update *)
\* The entry of id e after a rename_item / update_content call with
\* arguments a: the title, or the content, replaced and nothing else.
Edited(op, entry, a) ==
    IF op = "rename_item" THEN [entry EXCEPT !["title"] = a.title]
    ELSE [entry EXCEPT !["text"] = a.text]

\* C39: rename_item and update_content on an id without an entry return
\* None and change nothing in the FAQ store; on an existing id rename_item
\* changes only the title and update_content only the content of that item,
\* and neither changes the order list or any other item.
C39_Step ==
    \A p \in FaqProcs : \A op \in {"rename_item", "update_content"} :
        Returns(p, op) =>
            /\ order' = order
            /\ IF fres'[p] = <<>>
               THEN items[farg[p].id] = Absent /\ items' = items
               ELSE /\ items[farg[p].id] # Absent
                    /\ items' = [items EXCEPT ![farg[p].id] = Edited(op, @, farg[p])]

C39_EditsOnlyItsField == [][C39_Step]_vars

(* ------------------------------------------------ claims on the backup script *)
\* The backup command runs without --force.
Unforced == bpc # "idle" /\ ~bargs.force

\* C40: the backup command run without --force never overwrites an already
\* existing output file: if the final output path exists when the command
\* starts, the command fails before dumping, and no step of the command
\* changes an output file that exists, with and without --compress.
C40_Step ==
    /\ (bpc = "idle" /\ bpc' # "idle" /\ ~bargs'.force /\ exists(output_path(bargs'))) =>
           bpc' = "failed" /\ files' = files
    /\ (Unforced /\ exists(output_path(bargs))) =>
           files'[output_path(bargs)] = files[output_path(bargs)]

C40_NoOverwriteWithoutForce == [][C40_Step]_vars

====
